---- MODULE Spec2Model ----
(***************************************************************************)
(* Model of the dependency analyzer: the graph builder (buildGraph,        *)
(* findCycles over graphlib's Graph), the Gemini LLM client (analyze,      *)
(* executeWithRetries) and the analysis service that falls back from the   *)
(* LLM strategy to the programmatic one.                                   *)
(*                                                                         *)
(* Strings are sequences of one-character strings, so that the two string  *)
(* orders the code uses (Array.prototype.sort's UTF-16 code unit order and *)
(* String.prototype.localeCompare's collation order) and the substring     *)
(* tests on error messages are computed, not assumed.                      *)
(***************************************************************************)
EXTENDS Integers, Sequences, FiniteSets, TLC

(***************************************************************************)
(* Bounds of the model.                                                    *)
(***************************************************************************)
\* longest dependency list of one entry of an adjacency mapping
MaxDeps == 2
\* most dependencies listed in one adjacency mapping, over all its entries
MaxDepsTotal == 4
\* largest maxRetries option a caller of GeminiLLMClient passes
MaxRetriesOpt == 3
\* most dependencies listed in one adjacency mapping on whose graph every
\* analysis function is called, in any sequence
MaxGraphDepsTotal == 1
\* most calls whose log entries are kept
MaxLogged == 1
\* most files in the list parseImports is called with
MaxFiles == 3
\* most entries in a value handed to validateAdjacencyMapping, and most
\* elements in one of its lists
MaxEntries == 2
MaxItems == 1

(***************************************************************************)
(* Strings.                                                                *)
(***************************************************************************)
Range(s) == {s[i] : i \in DOMAIN s}

Min(a, b) == IF a < b THEN a ELSE b

\* UTF-16 code units of the characters that occur in the model's strings. A
\* string is the sequence of its code units: "uFF21" is the fullwidth letter
\* A, "uD83D" and "uDE00" are the two surrogates of U+1F600
CodeUnit(c) ==
  CASE c = " " -> 32 [] c = "-" -> 45 [] c = "." -> 46 [] c = "/" -> 47
    [] c = "0" -> 48 [] c = "1" -> 49 [] c = "2" -> 50 [] c = "3" -> 51
    [] c = "4" -> 52 [] c = "5" -> 53 [] c = "6" -> 54 [] c = "7" -> 55
    [] c = "8" -> 56 [] c = "9" -> 57 [] c = ":" -> 58 [] c = "B" -> 66
    [] c = "C" -> 67 [] c = "D" -> 68 [] c = "E" -> 69 [] c = "H" -> 72
    [] c = "N" -> 78 [] c = "O" -> 79 [] c = "R" -> 82 [] c = "S" -> 83
    [] c = "T" -> 84 [] c = "a" -> 97 [] c = "b" -> 98 [] c = "c" -> 99
    [] c = "d" -> 100 [] c = "e" -> 101 [] c = "f" -> 102 [] c = "g" -> 103
    [] c = "h" -> 104 [] c = "i" -> 105 [] c = "k" -> 107 [] c = "l" -> 108
    [] c = "m" -> 109 [] c = "n" -> 110 [] c = "o" -> 111 [] c = "p" -> 112
    [] c = "q" -> 113 [] c = "r" -> 114 [] c = "s" -> 115 [] c = "t" -> 116
    [] c = "u" -> 117 [] c = "w" -> 119 [] c = "x" -> 120 [] c = "y" -> 121
    [] c = "z" -> 122
    [] c = "uD83D" -> 55357 [] c = "uDE00" -> 56832 [] c = "uFF21" -> 65313

IsUpper(c) == CodeUnit(c) >= 65 /\ CodeUnit(c) <= 90

\* String.prototype.toLowerCase, one character
LowerChar(c) ==
  CASE c = "B" -> "b" [] c = "C" -> "c" [] c = "D" -> "d" [] c = "E" -> "e"
    [] c = "H" -> "h" [] c = "N" -> "n" [] c = "O" -> "o" [] c = "R" -> "r"
    [] c = "S" -> "s" [] c = "T" -> "t"
    [] OTHER -> c

toLowerCase(s) == [i \in DOMAIN s |-> LowerChar(s[i])]

\* String.prototype.includes
includes(s, p) ==
  \E i \in 0..(Len(s) - Len(p)) : SubSeq(s, i + 1, i + Len(p)) = p

\* first index at which two sequences of weights differ, 0 when one is a
\* prefix of the other
FirstDiff(a, b) ==
  LET n == Min(Len(a), Len(b))
      D == {i \in 1..n : a[i] # b[i]}
  IN IF D = {} THEN 0 ELSE CHOOSE i \in D : \A j \in D : i <= j

CodeUnits(s) == [i \in DOMAIN s |-> CodeUnit(s[i])]

\* the order of Array.prototype.sort without a comparator: by UTF-16 code
\* units, a proper prefix first. Distinct characters have distinct code
\* units, so the first place where the code units differ is the first place
\* where the characters differ
CodeUnitLess(s, t) ==
  LET d == FirstDiff(s, t)
  IN IF d = 0 THEN Len(s) < Len(t) ELSE CodeUnit(s[d]) < CodeUnit(t[d])

\* primary collation weight: letters compare without case and without
\* width, and the punctuation and digits of the model sort before the
\* letters in their code unit order; a symbol outside the basic plane (its
\* weight carried by the high surrogate) sorts after the punctuation and
\* before the digits
PrimaryWeight(c) ==
  IF c = "uDE00" THEN 0
  ELSE IF c = "uD83D" THEN 2 * CodeUnit("/") + 1
  ELSE 2 * CodeUnit(IF c = "uFF21" THEN "a" ELSE LowerChar(c))

\* tertiary collation rank of the variants of one letter: lower case, upper
\* case, fullwidth upper case
TertiaryRank(c) ==
  CASE c = "uFF21" -> 2
    [] IsUpper(c) -> 1
    [] OTHER -> 0

\* the primary weights of a string; a low surrogate carries none
PrimaryWeights(s) ==
  SelectSeq([i \in DOMAIN s |-> PrimaryWeight(s[i])], LAMBDA w : w # 0)

\* the comparison of two sequences of weights, tie where they are equal
CompareWeights(ws, wt, tie) ==
  LET d == FirstDiff(ws, wt)
  IN IF d # 0 THEN (IF ws[d] < wt[d] THEN -1 ELSE 1)
     ELSE IF Len(ws) # Len(wt) THEN (IF Len(ws) < Len(wt) THEN -1 ELSE 1)
     ELSE tie

\* the comparison of the variants of the letters at the first place where
\* two strings of equal primary weights differ
CompareVariants(s, t, e) ==
  IF e = 0 THEN 0
  ELSE IF TertiaryRank(s[e]) < TertiaryRank(t[e]) THEN -1 ELSE 1

\* String.prototype.localeCompare (root collation): -1, 0 or 1. Primary
\* weights decide first, over the whole string; then the variant of the
\* letter, lower case first
localeCompare(s, t) ==
  CompareWeights(PrimaryWeights(s), PrimaryWeights(t),
                 CompareVariants(s, t, FirstDiff(CodeUnits(s), CodeUnits(t))))

\* Array.prototype.sort: stable, by the strict order R, the set of the
\* pairs <<x, y>> whose comparison puts x before y
StableSort(s, R) ==
  LET rank(i) == Cardinality({j \in DOMAIN s :
                    <<s[j], s[i]>> \in R \/ (<<s[i], s[j]>> \notin R /\ j < i)}) + 1
  IN [k \in 1..Len(s) |-> s[CHOOSE i \in DOMAIN s : rank(i) = k]]

\* array.sort() on an array of strings
sortStrings(s) ==
  StableSort(s, {p \in Range(s) \X Range(s) : CodeUnitLess(p[1], p[2])})

\* the elements of s in order, each kept at its first occurrence (the
\* insertion order of a Set, or of the keys of an object)
RECURSIVE Dedup(_)
Dedup(s) ==
  IF s = <<>> THEN <<>>
  ELSE LET r == Dedup(SubSeq(s, 1, Len(s) - 1))
           x == s[Len(s)]
       IN IF x \in Range(r) THEN r ELSE Append(r, x)

RECURSIVE Flatten(_)
Flatten(ss) == IF ss = <<>> THEN <<>> ELSE Head(ss) \o Flatten(Tail(ss))

(***************************************************************************)
(* File paths and adjacency mappings.                                      *)
(***************************************************************************)
PathB == <<"/", "B", ".", "t", "s">>
PathA == <<"/", "a", ".", "t", "s">>
PathAb == <<"/", "a", "b", ".", "t", "s">>

Paths == {PathB, PathA, PathAb}

\* the dependency lists of an entry: unsorted, duplicates allowed
DepLists == UNION {[1..n -> Paths] : n \in 0..MaxDeps}

\* the key orders of an adjacency mapping: distinct keys, any insertion order
KeySeqs ==
  UNION {{ks \in [1..n -> Paths] : \A i, j \in 1..n : i # j => ks[i] # ks[j]} :
         n \in 0..Cardinality(Paths)}

RECURSIVE SumLen(_)
SumLen(ls) == IF ls = <<>> THEN 0 ELSE Len(Head(ls)) + SumLen(Tail(ls))

\* AdjacencyMapping: a sequence of entries <<key, dependencies>>, in the
\* insertion order of the object's keys; the mappings that list at most
\* total dependencies
AdjacencyMappings(total) ==
  LET lists == {d \in [1..Cardinality(Paths) -> DepLists] : SumLen(d) <= total}
  IN {[i \in 1..Len(p[1]) |-> <<p[1][i], p[2][i]>>] : p \in KeySeqs \X lists}

AdjacencyInputs == AdjacencyMappings(MaxDepsTotal)

\* "/<c>.ts"
PathOf(c) == <<"/", c, ".", "t", "s">>

\* a file named by the fullwidth letter A, a file named by U+1F600
PathFullwidthA == PathOf("uFF21")
PathEmoji == <<"/", "uD83D", "uDE00", ".", "t", "s">>

\* a mapping of the two files with names outside ASCII
WideAdjacency == <<<<PathFullwidthA, <<PathEmoji>>>>, <<PathEmoji, <<>>>>>>

\* a mapping with a hub: /a.ts imports ten files, five of which import it
HubAdjacency ==
  <<<<PathA, <<PathOf("9"), PathOf("8"), PathOf("7"), PathOf("6"), PathOf("5"),
              PathOf("0"), PathOf("1"), PathOf("2"), PathOf("3"), PathOf("4")>>>>,
    <<PathOf("4"), <<PathA>>>>, <<PathOf("3"), <<PathA>>>>, <<PathOf("2"), <<PathA>>>>,
    <<PathOf("1"), <<PathA>>>>, <<PathOf("0"), <<PathA>>>>>>

\* a mapping with unsorted lists that list a file twice, and the same
\* mapping with its keys and lists in another order
RepeatingAdjacency ==
  <<<<PathAb, <<PathA, PathB, PathA>>>>, <<PathB, <<PathAb, PathAb>>>>>>
RepeatingAdjacencyReordered ==
  <<<<PathB, <<PathAb>>>>, <<PathAb, <<PathB, PathB, PathA>>>>>>

\* a mapping of four files that each import themselves, and one that
\* imports nothing
SelfImportsAdjacency ==
  <<<<PathOf("3"), <<PathOf("3")>>>>, <<PathOf("1"), <<PathOf("1")>>>>,
    <<PathOf("0"), <<PathOf("0")>>>>, <<PathOf("2"), <<PathOf("2")>>>>,
    <<PathA, <<>>>>>>

\* the two files with names outside ASCII, importing each other
WideCycleAdjacency ==
  <<<<PathFullwidthA, <<PathEmoji>>>>, <<PathEmoji, <<PathFullwidthA>>>>>>

\* the mappings on whose graph the analysis functions are called
GraphInputs ==
  AdjacencyMappings(MaxGraphDepsTotal)
    \cup {WideAdjacency, HubAdjacency, RepeatingAdjacency, RepeatingAdjacencyReordered,
          SelfImportsAdjacency, WideCycleAdjacency}

(***************************************************************************)
(* graphlib's Graph: nodes and edges in insertion order.                   *)
(***************************************************************************)
EmptyGraph == [nodes |-> <<>>, edges |-> <<>>]

NodeSet(g) == Range(g.nodes)
EdgeSet(g) == Range(g.edges)

\* graph.successors(v): Object.keys of the out-edge map of v
successors(g, v) ==
  LET es == SelectSeq(g.edges, LAMBDA e : e[1] = v)
  IN [i \in DOMAIN es |-> es[i][2]]

\* graph.predecessors(v)
predecessors(g, v) ==
  LET es == SelectSeq(g.edges, LAMBDA e : e[2] = v)
  IN [i \in DOMAIN es |-> es[i][1]]

hasEdge(g, v, w) == <<v, w>> \in EdgeSet(g)

Keys(A) == [i \in DOMAIN A |-> A[i][1]]
Values(A) == [i \in DOMAIN A |-> A[i][2]]

\* every (source, dependency) pair of the mapping, in iteration order
EntryPairs(A) ==
  Flatten([i \in DOMAIN A |-> [j \in DOMAIN A[i][2] |-> <<A[i][1], A[i][2][j]>>]])

\* a buildGraph that adds the source files alone as nodes
buildGraphSourcesOnly(A) ==
  [nodes |-> Dedup(Keys(A)), edges |-> Dedup(EntryPairs(A))]

\* a buildGraph that keeps one edge for each time a dependency is listed
buildGraphKeepingRepeats(A) ==
  [nodes |-> Dedup(Keys(A) \o Flatten(Values(A))), edges |-> EntryPairs(A)]

\* graph.nodeCount(), graph.edgeCount()
nodeCount(g) == Len(g.nodes)
edgeCount(g) == Len(g.edges)

buildGraph(A) ==
  LET allNodes == Dedup(Keys(A) \o Flatten(Values(A)))
  IN [nodes |-> allNodes, edges |-> Dedup(EntryPairs(A))]

(***************************************************************************)
(* graphlib's alg.tarjan and alg.findCycles, which findCycles calls:       *)
(* Tarjan's strongly connected components, visiting graph.nodes() and      *)
(* graph.successors(v) in insertion order; findCycles keeps the components *)
(* of more than one node and the single nodes with a self-edge.            *)
(***************************************************************************)
TarjanStart == [index |-> 0, stack |-> <<>>, visited |-> <<>>, results |-> <<>>]

\* do { w = stack.pop(); onStack = false; cmpt.push(w) } while (v !== w)
PopComponent(v, st) ==
  LET p == CHOOSE i \in DOMAIN st.stack : st.stack[i] = v
      n == Len(st.stack)
      cmpt == [k \in 1..(n - p + 1) |-> st.stack[n - k + 1]]
  IN [st EXCEPT !.stack = SubSeq(@, 1, p - 1),
                !.visited = [x \in DOMAIN @ |->
                               IF x \in Range(cmpt)
                               THEN [@[x] EXCEPT !.onStack = FALSE] ELSE @[x]],
                !.results = Append(@, cmpt)]

RECURSIVE dfs(_, _, _)
RECURSIVE dfsSuccessors(_, _, _, _, _)

dfs(g, v, st) ==
  LET entry == [onStack |-> TRUE, lowlink |-> st.index, index |-> st.index]
      st1 == [st EXCEPT !.visited = (v :> entry) @@ @,
                        !.index = @ + 1,
                        !.stack = Append(@, v)]
      st2 == dfsSuccessors(g, v, successors(g, v), 1, st1)
  IN IF st2.visited[v].lowlink = st2.visited[v].index
     THEN PopComponent(v, st2)
     ELSE st2

dfsSuccessors(g, v, succs, i, st) ==
  IF i > Len(succs) THEN st
  ELSE LET w == succs[i]
       IN IF w \notin DOMAIN st.visited
          THEN LET s1 == dfs(g, w, st)
                   s2 == [s1 EXCEPT !.visited[v].lowlink =
                                       Min(@, s1.visited[w].lowlink)]
               IN dfsSuccessors(g, v, succs, i + 1, s2)
          ELSE IF st.visited[w].onStack
          THEN dfsSuccessors(g, v, succs, i + 1,
                 [st EXCEPT !.visited[v].lowlink = Min(@, st.visited[w].index)])
          ELSE dfsSuccessors(g, v, succs, i + 1, st)

RECURSIVE tarjanFrom(_, _, _)
tarjanFrom(g, i, st) ==
  IF i > Len(g.nodes) THEN st
  ELSE IF g.nodes[i] \in DOMAIN st.visited THEN tarjanFrom(g, i + 1, st)
  ELSE tarjanFrom(g, i + 1, dfs(g, g.nodes[i], st))

tarjan(g) == tarjanFrom(g, 1, TarjanStart).results

\* the components of more than one node alone: a self-edge is not reported
algFindCyclesWithoutSelfLoops(g) ==
  SelectSeq(tarjan(g), LAMBDA cmpt : Len(cmpt) > 1)

\* every component, the single nodes without a self-edge among them
algFindCyclesEveryComponent(g) == tarjan(g)

\* alg.findCycles: the strongly connected components of more than one node,
\* and the single nodes with an edge to themselves
algFindCycles(g) ==
  SelectSeq(tarjan(g),
            LAMBDA cmpt : Len(cmpt) > 1
                          \/ (Len(cmpt) = 1 /\ hasEdge(g, cmpt[1], cmpt[1])))

(***************************************************************************)
(* findCycles                                                              *)
(***************************************************************************)
\* the comparator of the outer sort: first elements by localeCompare, then
\* the lengths
CycleCompare(a, b) ==
  LET firstComparison == localeCompare(a[1], b[1])
  IN IF firstComparison # 0 THEN firstComparison ELSE Len(a) - Len(b)

CycleBefore(a, b) == CycleCompare(a, b) < 0

\* cycles.map((cycle) => cycle.sort())
sortEachCycle(cycles) == [i \in DOMAIN cycles |-> sortStrings(cycles[i])]

\* the outer sort left out: the cycles stay in the order Tarjan's search
\* closed their components
sortCycleListOmitted(cycles) == cycles

\* .sort((a, b) => ...)
sortCycleList(cycles) ==
  StableSort(cycles, {p \in Range(cycles) \X Range(cycles) : CycleBefore(p[1], p[2])})

findCycles(g) == sortCycleList(sortEachCycle(algFindCycles(g)))

(***************************************************************************)
(* serializeAdjacency, computeFanInOut and the programmatic analyzer.      *)
(***************************************************************************)
\* a serializeAdjacency that lists the predecessors of each node
serializeAdjacencyOfPredecessors(g) ==
  LET nodes == sortStrings(g.nodes)
  IN [i \in DOMAIN nodes |-> <<nodes[i], sortStrings(predecessors(g, nodes[i]))>>]

\* an object as the sequence of its entries <<key, value>>, in key order
serializeAdjacency(g) ==
  LET nodes == sortStrings(g.nodes)
  IN [i \in DOMAIN nodes |-> <<nodes[i], sortStrings(successors(g, nodes[i]))>>]

\* a computeFanInOut that has no entry for a count of 0
computeFanInOutWithoutZeros(g) ==
  LET fanIn == [i \in DOMAIN g.nodes |-> <<g.nodes[i], Len(predecessors(g, g.nodes[i]))>>]
      fanOut == [i \in DOMAIN g.nodes |-> <<g.nodes[i], Len(successors(g, g.nodes[i]))>>]
  IN [fanIn |-> SelectSeq(fanIn, LAMBDA e : e[2] > 0),
      fanOut |-> SelectSeq(fanOut, LAMBDA e : e[2] > 0)]

\* fanIn and fanOut, each the entries <<node, count>> in the order of
\* graph.nodes()
computeFanInOut(g) ==
  [fanIn |-> [i \in DOMAIN g.nodes |-> <<g.nodes[i], Len(predecessors(g, g.nodes[i]))>>],
   fanOut |-> [i \in DOMAIN g.nodes |-> <<g.nodes[i], Len(successors(g, g.nodes[i]))>>]]

DefaultFanInThreshold == 5
DefaultFanOutThreshold == 10

\* the defaults of findHighCouplingNodes' options
HighFanInDefault == 5
HighFanOutDefault == 10

\* an optional property: the empty set when it is not supplied
Supplied(opt, default) == IF opt = {} THEN default ELSE CHOOSE x \in opt : TRUE

\* count > threshold, the comparison that leaves out the threshold itself
qualifiesAbove(count, threshold) == count > threshold

\* count >= threshold
qualifies(count, threshold) == count >= threshold

\* the comparator of highFanIn.sort and highFanOut.sort, as the pairs it
\* puts in order: higher counts first, then a.node.localeCompare(b.node)
CouplingBefore(es) ==
  {p \in Range(es) \X Range(es) :
     \/ p[1].count > p[2].count
     \/ p[1].count = p[2].count /\ localeCompare(p[1].node, p[2].node) < 0}

\* one list of findHighCouplingNodes, from Object.entries of a metric
highCoupling(entries, threshold) ==
  LET high == SelectSeq(entries, LAMBDA e : qualifies(e[2], threshold))
      pushed == [i \in DOMAIN high |-> [node |-> high[i][1], count |-> high[i][2]]]
  IN StableSort(pushed, CouplingBefore(pushed))

findHighCouplingNodes(g, options) ==
  LET fanInThreshold == Supplied(options.fanInThreshold, HighFanInDefault)
      fanOutThreshold == Supplied(options.fanOutThreshold, HighFanOutDefault)
      metrics == computeFanInOut(g)
  IN [highFanIn |-> highCoupling(metrics.fanIn, fanInThreshold),
      highFanOut |-> highCoupling(metrics.fanOut, fanOutThreshold)]

DEFAULT_OPTIONS ==
  [fanInThreshold |-> DefaultFanInThreshold,
   fanOutThreshold |-> DefaultFanOutThreshold,
   useBasenames |-> TRUE]

\* { ...DEFAULT_OPTIONS, ...options }: each option supplied or not
mergeOptions(options) ==
  [fanInThreshold |-> Supplied(options.fanInThreshold, DEFAULT_OPTIONS.fanInThreshold),
   fanOutThreshold |-> Supplied(options.fanOutThreshold, DEFAULT_OPTIONS.fanOutThreshold),
   useBasenames |-> Supplied(options.useBasenames, DEFAULT_OPTIONS.useBasenames)]

\* path.basename(p) for a POSIX path that does not end in "/"
LastSegment(p) ==
  LET S == {i \in DOMAIN p : p[i] = "/"}
      k == IF S = {} THEN 0 ELSE CHOOSE i \in S : \A j \in S : j <= i
  IN SubSeq(p, k + 1, Len(p))

\* path.basename(p, ext)
basename(p, ext) ==
  LET b == LastSegment(p)
      n == Len(b) - Len(ext)
  IN IF b # ext /\ n >= 0 /\ SubSeq(b, n + 1, Len(b)) = ext
     THEN SubSeq(b, 1, n) ELSE b

ExtTs == <<".", "t", "s">>

nodeName(node, options) == IF options.useBasenames THEN basename(node, ExtTs) ELSE node

\* String(n) for a count
RECURSIVE Decimal(_)
Decimal(n) ==
  LET digit == <<"0", "1", "2", "3", "4", "5", "6", "7", "8", "9">>[(n % 10) + 1]
  IN IF n < 10 THEN <<digit>> ELSE Append(Decimal(n \div 10), digit)

\* names.join(sep)
RECURSIVE join(_, _)
join(names, sep) ==
  IF names = <<>> THEN <<>>
  ELSE IF Len(names) = 1 THEN names[1]
  ELSE names[1] \o sep \o join(Tail(names), sep)

\* the description of each cycle found
describeCycles(cycles, options) ==
     [i \in DOMAIN cycles |->
        LET nodeNames == [k \in DOMAIN cycles[i] |-> nodeName(cycles[i][k], options)]
        IN <<"C", "i", "r", "c", "u", "l", "a", "r", " ", "d", "e", "p", "e", "n", "d", "e", "n", "c", "y", ":", " ">> \o join(Append(nodeNames, nodeNames[1]), <<" ", "-", ">", " ">>)]

detectCircularDependencies(g, options) == describeCycles(findCycles(g), options)

detectTightCoupling(g, options) ==
  LET fan == computeFanInOut(g)
      highIn == SelectSeq(fan.fanIn, LAMBDA e : e[2] >= options.fanInThreshold)
      highOut == SelectSeq(fan.fanOut, LAMBDA e : e[2] >= options.fanOutThreshold)
      inText == [i \in DOMAIN highIn |->
                   <<"H", "i", "g", "h", " ", "f", "a", "n", "-", "i", "n", ":", " ">> \o nodeName(highIn[i][1], options)
                     \o <<" ", "i", "s", " ", "d", "e", "p", "e", "n", "d", "e", "d", " ", "u", "p", "o", "n", " ", "b", "y", " ">> \o Decimal(highIn[i][2]) \o <<" ", "m", "o", "d", "u", "l", "e", "s">>]
      outText == [i \in DOMAIN highOut |->
                    <<"H", "i", "g", "h", " ", "f", "a", "n", "-", "o", "u", "t", ":", " ">> \o nodeName(highOut[i][1], options)
                      \o <<" ", "d", "e", "p", "e", "n", "d", "s", " ", "o", "n", " ">> \o Decimal(highOut[i][2]) \o <<" ", "m", "o", "d", "u", "l", "e", "s">>]
  IN sortStrings(inText \o outText)

\* entries.sort(([, a], [, b]) => b - a)
sortByCountDescending(entries) ==
  StableSort(entries, {p \in Range(entries) \X Range(entries) : p[1][2] > p[2][2]})

\* a slice that takes the whole array
FirstUpToUnbounded(q, n) == q

\* slice(0, n)
FirstUpTo(q, n) == SubSeq(q, 1, Min(n, Len(q)))

MaxListed == 3
HighAverageDependencies == 5
ManyModules == 50
LowAverageDependencies == 2

\* each recommendation is its template and the values put into it
recommend(cycles, g, options) ==
  LET fan == computeFanInOut(g)
      cycleRecs ==
        IF Len(cycles) > 0
        THEN <<[template |-> "Found N circular dependency cycles", count |-> Len(cycles)]>>
             \o [i \in DOMAIN FirstUpTo(cycles, MaxListed) |->
                   [template |-> "Break cycle involving",
                    names |-> [k \in DOMAIN cycles[i] |-> nodeName(cycles[i][k], options)]]]
        ELSE <<>>
      highFanOutModules ==
        sortByCountDescending(
          SelectSeq(fan.fanOut, LAMBDA e : e[2] >= options.fanOutThreshold))
      highFanInModules ==
        sortByCountDescending(
          SelectSeq(fan.fanIn, LAMBDA e : e[2] >= options.fanInThreshold))
      outTop == FirstUpTo(highFanOutModules, MaxListed)
      inTop == FirstUpTo(highFanInModules, MaxListed)
      outRecs == [i \in DOMAIN outTop |->
                    [template |-> "Consider splitting",
                     name |-> nodeName(outTop[i][1], options), count |-> outTop[i][2]]]
      inRecs == [i \in DOMAIN inTop |->
                   [template |-> IF inTop[i][2] >= options.fanInThreshold * 2
                                 THEN "Consider extracting interfaces" ELSE "Monitor",
                    name |-> nodeName(inTop[i][1], options), count |-> inTop[i][2]]]
      averageRecs ==
        IF nodeCount(g) > 0 /\ edgeCount(g) > HighAverageDependencies * nodeCount(g)
        THEN <<[template |-> "high average dependencies per module",
                edgeCount |-> edgeCount(g), nodeCount |-> nodeCount(g)]>>
        ELSE <<>>
      fragmentedRecs ==
        IF nodeCount(g) > ManyModules /\ edgeCount(g) < LowAverageDependencies * nodeCount(g)
        THEN <<[template |-> "many modules with low interconnectivity"]>>
        ELSE <<>>
  IN cycleRecs \o outRecs \o inRecs \o averageRecs \o fragmentedRecs

generateRecommendations(g, options) == recommend(findCycles(g), g, options)

\* analyzeProgrammatically once the options are merged into opts
analyzeWithOptions(g, opts) ==
  [circularDependencies |-> detectCircularDependencies(g, opts),
   tightCoupling |-> detectTightCoupling(g, opts),
   recommendations |-> generateRecommendations(g, opts)]

NoOptions == [fanInThreshold |-> {}, fanOutThreshold |-> {}, useBasenames |-> {}]

analyzeProgrammatically(g, options) == analyzeWithOptions(g, mergeOptions(options))

\* what the logger is given at level warn and above
CircularDependenciesDetected == <<"warn", "Circular dependencies detected">>
ErrorDuringCycleDetection == <<"error", "Error during cycle detection">>

\* findCycles with its logger and the catch of its try block: what it
\* returns and what it logs, when alg.findCycles throws and when it does not
findCyclesLogged(g, enumerationThrows) ==
  IF enumerationThrows
  THEN [returned |-> <<>>, logged |-> <<ErrorDuringCycleDetection>>]
  ELSE LET sortedCycles == findCycles(g)
       IN [returned |-> sortedCycles,
           logged |-> IF Len(sortedCycles) > 0
                      THEN <<CircularDependenciesDetected>> ELSE <<>>]

\* analyzeProgrammatically with the logger: findCycles is called by
\* detectCircularDependencies and again by generateRecommendations
analyzeProgrammaticallyLogged(g, options, enumerationThrows) ==
  LET opts == mergeOptions(options)
      found == findCyclesLogged(g, enumerationThrows)
  IN [returned |-> [circularDependencies |-> describeCycles(found.returned, opts),
                    tightCoupling |-> detectTightCoupling(g, opts),
                    recommendations |-> recommend(found.returned, g, opts)],
      logged |-> found.logged \o found.logged]

(***************************************************************************)
(* Errors of the LLM client. A thrown value is a record: llm says whether  *)
(* it is an LLMError, isError whether it is an Error at all.               *)
(***************************************************************************)
LLMError(message, code, statusCode, retryable) ==
  [llm |-> TRUE, isError |-> TRUE, message |-> message, code |-> code,
   statusCode |-> statusCode, retryable |-> retryable]

\* new Error(message), as the SDK and the network stack throw them
PlainError(message) ==
  [llm |-> FALSE, isError |-> TRUE, message |-> message, code |-> "",
   statusCode |-> 0, retryable |-> FALSE]

\* a rejection with a value that is no Error
ThrownString(message) ==
  [llm |-> FALSE, isError |-> FALSE, message |-> message, code |-> "",
   statusCode |-> 0, retryable |-> FALSE]

networkError(message) == LLMError(message, "NETWORK_ERROR", 0, TRUE)
authenticationError(message) == LLMError(message, "AUTH_ERROR", 401, FALSE)
rateLimitError(message) == LLMError(message, "RATE_LIMIT", 429, TRUE)

\* the messages generateContent rejects with
MsgNetwork == <<"n", "e", "t", "w", "o", "r", "k", " ", "e", "r", "r", "o", "r">>
MsgRateLimit == <<"4", "2", "9", " ", "r", "a", "t", "e", " ", "l", "i", "m", "i", "t">>
MsgUnauthorized == <<"4", "0", "1", " ", "u", "n", "a", "u", "t", "h", "o", "r", "i", "z", "e", "d">>
MsgUnauthorizedId == <<"4", "0", "1", " ", "u", "n", "a", "u", "t", "h", "o", "r", "i", "z", "e", "d", " ", "i", "d", " ", "5">>
MsgServer == <<"p", "e", "r", "s", "i", "s", "t", "e", "n", "t", " ", "5", "x", "x", " ", "e", "r", "r", "o", "r">>
MsgConnReset == <<"r", "e", "a", "d", " ", "E", "C", "O", "N", "N", "R", "E", "S", "E", "T">>
MsgBadRequest == <<"b", "a", "d", " ", "r", "e", "q", "u", "e", "s", "t">>
MsgTimeout == <<"R", "e", "q", "u", "e", "s", "t", " ", "t", "i", "m", "e", "o", "u", "t">>
MsgEmpty == <<"E", "m", "p", "t", "y", " ", "r", "e", "s", "p", "o", "n", "s", "e">>

SdkMessages ==
  {MsgNetwork, MsgRateLimit, MsgUnauthorized, MsgUnauthorizedId, MsgServer,
   MsgConnReset, MsgBadRequest}

\* what generateContent may reject with
SdkRejections == {PlainError(m) : m \in SdkMessages} \cup {ThrownString(MsgBadRequest)}

\* the rejection of createTimeoutPromise's timer
TimeoutError == LLMError(MsgTimeout, "TIMEOUT", 0, TRUE)

\* the error thrown for a result without text
EmptyResponseError == LLMError(MsgEmpty, "EMPTY_RESPONSE", 0, FALSE)

isRetryableError(error) ==
  IF error.llm THEN error.retryable
  ELSE IF error.isError
  THEN LET message == toLowerCase(error.message)
       IN \/ includes(message, <<"n", "e", "t", "w", "o", "r", "k">>)
          \/ includes(message, <<"t", "i", "m", "e", "o", "u", "t">>)
          \/ includes(message, <<"e", "c", "o", "n", "n", "r", "e", "s", "e", "t">>)
          \/ includes(message, <<"e", "n", "o", "t", "f", "o", "u", "n", "d">>)
          \/ includes(message, <<"4", "2", "9">>)
          \/ includes(message, <<"5">>)
  ELSE FALSE

convertToLLMError(error) ==
  IF error.llm THEN error
  ELSE IF error.isError
  THEN LET message == toLowerCase(error.message)
       IN IF includes(message, <<"4", "0", "1">>) \/ includes(message, <<"u", "n", "a", "u", "t", "h", "o", "r", "i", "z", "e", "d">>)
          THEN authenticationError(error.message)
          ELSE IF includes(message, <<"4", "2", "9">>) \/ includes(message, <<"r", "a", "t", "e", " ", "l", "i", "m", "i", "t">>)
          THEN rateLimitError(error.message)
          ELSE IF includes(message, <<"n", "e", "t", "w", "o", "r", "k">>) \/ includes(message, <<"t", "i", "m", "e", "o", "u", "t">>)
          THEN networkError(error.message)
          ELSE LLMError(error.message, "UNKNOWN_ERROR", 0, FALSE)
  ELSE LLMError(error.message, "UNKNOWN_ERROR", 0, FALSE)

\* lastError = error instanceof Error ? error : new Error(String(error))
asError(error) == IF error.isError THEN error ELSE PlainError(error.message)

(***************************************************************************)
(* Responses of generateContent and their validation.                      *)
(***************************************************************************)
\* the payload a well-formed response carries
LLMInsights ==
  [circularDependencies |-> <<"llm: cycle">>,
   tightCoupling |-> <<"llm: coupling">>,
   recommendations |-> <<"llm: recommendation">>]

\* result.text by what it holds: nothing (null, undefined or ""), text that
\* is no JSON, a JSON object of another shape, the payload as JSON, the
\* payload as JSON inside further text
ResponseTexts == {"none", "notJson", "wrongShape", "payload", "payloadInText"}

\* the response taken as it comes once it parses as JSON, its shape unchecked
parseWithoutSchema(text) ==
  IF text \in {"payload", "payloadInText", "wrongShape"}
  THEN [ok |-> TRUE, data |-> LLMInsights]
  ELSE [ok |-> FALSE,
        error |-> LLMError(<<"p", "a", "r", "s", "e">>, "RESPONSE_PARSE_ERROR", 0, FALSE)]

\* parseAndValidateResponse: the payload, or the LLMError it throws
parseAndValidateResponse(text) ==
  CASE text \in {"payload", "payloadInText"} -> [ok |-> TRUE, data |-> LLMInsights]
    [] text = "wrongShape" ->
         [ok |-> FALSE,
          error |-> LLMError(<<"I", "n", "v", "a", "l", "i", "d", " ", "r", "e", "s", "p", "o", "n", "s", "e", " ", "f", "o", "r", "m", "a", "t">>, "INVALID_RESPONSE_FORMAT", 0, FALSE)]
    [] OTHER ->
         [ok |-> FALSE,
          error |-> LLMError(<<"F", "a", "i", "l", "e", "d", " ", "t", "o", " ", "p", "a", "r", "s", "e", " ", "L", "L", "M", " ", "r", "e", "s", "p", "o", "n", "s", "e">>, "RESPONSE_PARSE_ERROR", 0, FALSE)]

(***************************************************************************)
(* Values at run time, JSON, and the two schemas. A value carries its      *)
(* type; an object is the sequence of its entries <<key, value>> in key    *)
(* order.                                                                  *)
(***************************************************************************)
Str(s) == [t |-> "string", s |-> s]
Num(n) == [t |-> "number", n |-> n]
Null == [t |-> "null"]
Arr(items) == [t |-> "array", items |-> items]
Obj(entries) == [t |-> "object", entries |-> entries]

\* the value of property key of an object, Null standing for undefined
Get(o, key) ==
  LET I == {i \in DOMAIN o.entries : o.entries[i][1] = key}
  IN IF I = {} THEN Null ELSE o.entries[CHOOSE i \in I : TRUE][2]

\* an object literal or a parsed object: a key set twice keeps its first
\* place and its last value
RECURSIVE SetEntries(_)
SetEntries(es) ==
  IF es = <<>> THEN <<>>
  ELSE LET r == SetEntries(SubSeq(es, 1, Len(es) - 1))
           e == es[Len(es)]
           I == {i \in DOMAIN r : r[i][1] = e[1]}
       IN IF I = {} THEN Append(r, e)
          ELSE [i \in DOMAIN r |-> IF i \in I THEN e ELSE r[i]]

\* JSON.stringify: the text, by the document it writes
JSONstringify(v) == [text |-> "json", doc |-> v]

\* a text that is no JSON
NotJsonText == [text |-> "other"]

\* JSON.parse: the value, or the SyntaxError it throws
JSONparse(text) ==
  IF text.text # "json"
  THEN [ok |-> FALSE, error |-> PlainError(<<"U", "n", "e", "x", "p", "e", "c", "t", "e", "d", " ", "t", "o", "k", "e", "n">>)]
  ELSE [ok |-> TRUE,
        value |-> IF text.doc.t = "object"
                  THEN Obj(SetEntries(text.doc.entries))
                  ELSE text.doc]

\* an AdjacencyMapping as a value
AdjacencyValue(A) ==
  Obj([i \in DOMAIN A |->
         <<A[i][1], Arr([j \in DOMAIN A[i][2] |-> Str(A[i][2][j])])>>])

\* sanitizeGraphJson kept from sanitizing: the input goes out as it came
sanitizeOmitted(graphJson) == [ok |-> TRUE, text |-> graphJson]

\* sanitizeGraphJson: the sanitized text, or the LLMError it throws
sanitizeGraphJson(graphJson) ==
  LET parsed == JSONparse(graphJson)
  IN IF ~parsed.ok
     THEN [ok |-> FALSE,
           error |-> LLMError(<<"F", "a", "i", "l", "e", "d", " ", "t", "o", " ", "s", "a", "n", "i", "t", "i", "z", "e">>, "SANITIZATION_ERROR", 0, FALSE)]
     ELSE IF parsed.value.t # "object"
     THEN [ok |-> FALSE,
           error |-> LLMError(<<"G", "r", "a", "p", "h", " ", "m", "u", "s", "t", " ", "b", "e", " ", "a", "n", " ", "o", "b", "j", "e", "c", "t">>, "INVALID_GRAPH_FORMAT", 0, FALSE)]
     ELSE LET kept == SelectSeq(parsed.value.entries, LAMBDA e : e[2].t = "array")
              sanitized == [i \in DOMAIN kept |->
                              <<kept[i][1],
                                Arr(SelectSeq(kept[i][2].items, LAMBDA d : d.t = "string"))>>]
          IN [ok |-> TRUE, text |-> JSONstringify(Obj(sanitized))]

\* z.array(z.string())
IsStringArray(v) == v.t = "array" /\ \A i \in DOMAIN v.items : v.items[i].t = "string"

StringsOf(v) == [i \in DOMAIN v.items |-> v.items[i].s]

InsightKeys == <<"circularDependencies", "tightCoupling", "recommendations">>

\* InsightPayloadSchema.safeParse: success, and the data with the keys of
\* the schema alone
InsightPayloadSchema(v) ==
  IF v.t = "object" /\ \A i \in DOMAIN InsightKeys : IsStringArray(Get(v, InsightKeys[i]))
  THEN [success |-> TRUE,
        data |-> [circularDependencies |-> StringsOf(Get(v, "circularDependencies")),
                  tightCoupling |-> StringsOf(Get(v, "tightCoupling")),
                  recommendations |-> StringsOf(Get(v, "recommendations"))]]
  ELSE [success |-> FALSE]

\* an InsightPayload as a value
InsightValue(p) ==
  Obj(<<<<"circularDependencies",
          Arr([i \in DOMAIN p.circularDependencies |-> Str(p.circularDependencies[i])])>>,
        <<"tightCoupling", Arr([i \in DOMAIN p.tightCoupling |-> Str(p.tightCoupling[i])])>>,
        <<"recommendations",
          Arr([i \in DOMAIN p.recommendations |-> Str(p.recommendations[i])])>>>>)

(***************************************************************************)
(* State.                                                                  *)
(***************************************************************************)
VARIABLES
  adjacency,    \* the adjacency mapping the graph was built from
  graph,        \* the Graph
  op,           \* the last operation called on the graph
  args,         \* the arguments it was called with, besides the graph
  ret,          \* what it returned
  graphJson,    \* the argument llm.analyze was called with
  prompt,       \* the graph JSON that craftAnalysisPrompt put in the prompt
  caller,       \* who called GeminiLLMClient.analyze: "direct", "service"
  svcOptions,   \* AnalysisService.analyze: its options and the environment
  maxRetries,   \* this.options.maxRetries
  pc,           \* where the analyze call is
  attempt,      \* executeWithRetries' loop variable
  sent,         \* generateContent calls made
  pending,      \* the attempts whose generateContent request is outstanding
  timers,       \* the timeout timer of each attempt made
  lastError,    \* executeWithRetries' lastError
  lastResponse, \* what the text of the last result held
  outcome,      \* how the promise of analyze settled
  svcResult,    \* how the promise of AnalysisService.analyze settled
  log,          \* the service's warnings
  parser        \* parseImports: where the call is, its project and its result

graphVars == <<adjacency, graph, op, args, ret, graphJson, prompt>>
clientVars == <<maxRetries, pc, attempt, sent, pending, timers, lastError,
                lastResponse, outcome>>
serviceVars == <<caller, svcOptions, svcResult, log>>
vars == <<graphVars, clientVars, serviceVars, parser>>

DefaultMaxRetries == 3

Unsettled == [state |-> "none"]
Fulfilled(value) == [state |-> "fulfilled", value |-> value]
Rejected(error) == [state |-> "rejected", error |-> error]

NoError == ThrownString(<<>>)

\* parseImports not called
ParserIdle == [pc |-> "idle"]

\* no text yet
NoText == [text |-> "none"]

Init ==
  /\ adjacency = <<>>
  /\ graph = EmptyGraph
  /\ op = "none"
  /\ args = <<>>
  /\ ret = <<>>
  /\ graphJson = NoText
  /\ prompt = NoText
  /\ caller = "none"
  /\ svcOptions = [useProgrammaticAnalysis |-> FALSE, apiKey |-> FALSE]
  /\ maxRetries = DefaultMaxRetries
  /\ pc = "idle"
  /\ attempt = 0
  /\ sent = 0
  /\ pending = {}
  /\ timers = <<>>
  /\ lastError = NoError
  /\ lastResponse = "none"
  /\ outcome = Unsettled
  /\ svcResult = Unsettled
  /\ log = <<>>
  /\ parser = ParserIdle

(***************************************************************************)
(* The graph functions, called on a graph built from any mapping.          *)
(***************************************************************************)
\* buildGraph(adjacency)
BuildGraph ==
  /\ op = "none" /\ caller = "none"
  /\ \E A \in AdjacencyInputs :
       /\ adjacency' = A
       /\ graph' = buildGraph(A)
  /\ op' = "buildGraph"
  /\ ret' = <<>>
  /\ UNCHANGED <<args, graphJson, prompt, clientVars, serviceVars>>
  /\ UNCHANGED parser

\* a findCycles that takes the nodes of the cycles it reports off the graph
FindCyclesConsumingGraph ==
  /\ op # "none" /\ caller = "none"
  /\ op' = "findCycles"
  /\ args' = <<>>
  /\ ret' = findCycles(graph)
  /\ LET reported == UNION {Range(ret'[i]) : i \in DOMAIN ret'}
     IN graph' = [nodes |-> SelectSeq(graph.nodes, LAMBDA v : v \notin reported),
                  edges |-> SelectSeq(graph.edges,
                              LAMBDA e : e[1] \notin reported /\ e[2] \notin reported)]
  /\ UNCHANGED <<adjacency, graphJson, prompt, clientVars, serviceVars>>
  /\ UNCHANGED parser

\* findCycles(graph)
FindCycles ==
  /\ op # "none" /\ caller = "none"
  /\ op' = "findCycles"
  /\ args' = <<>>
  /\ ret' = findCycles(graph)
  /\ UNCHANGED <<adjacency, graph, graphJson, prompt, clientVars, serviceVars>>
  /\ UNCHANGED parser

(***************************************************************************)
(* AnalysisService.analyze and GeminiLLMClient.analyze. One action is one  *)
(* run of the event loop: from a settled promise or a fired timer to the   *)
(* next await that has to wait.                                            *)
(***************************************************************************)
FallbackWarning == <<"warn", "LLM analysis failed, falling back to programmatic analysis">>

programmaticResult(g) ==
  Fulfilled([graph |-> serializeAdjacency(g),
             insights |-> analyzeProgrammatically(g, NoOptions)])

\* the catch of the service's LLM branch rethrowing instead of falling back
serviceCatchRethrows(g, error) == Rejected(error)

\* the catch of the service's LLM branch
serviceCatch(g, error) == programmaticResult(g)

\* the string analyzeWithLLM calls llm.analyze with
llmArgument(adjacencyList) == JSONstringify(AdjacencyValue(adjacencyList))

\* analyzeWithLLM returning its output as it is, not validated
llmResultUnvalidated(adjacencyList, insights) ==
  Fulfilled([graph |-> adjacencyList, insights |-> insights])

\* analyzeWithLLM after llm.analyze has returned insights: the output
\* { graph, insights } is validated with AnalysisOutputSchema (the graph part
\* is a record of string arrays by construction) and its data returned
llmResult(adjacencyList, insights) ==
  LET validationResult == InsightPayloadSchema(insights)
  IN IF validationResult.success
     THEN Fulfilled([graph |-> adjacencyList, insights |-> validationResult.data])
     ELSE Rejected(PlainError(<<"A", "n", "a", "l", "y", "s", "i", "s", " ", "o", "u", "t", "p", "u", "t", " ", "v", "a", "l", "i", "d", "a", "t", "i", "o", "n", " ", "f", "a", "i", "l", "e", "d">>))

\* the promise of analyze settles; in the service analyzeWithLLM and the
\* service's try/catch run on
Settle(res) ==
  /\ pc' = IF res.state = "fulfilled" THEN "resolved" ELSE "rejected"
  /\ outcome' = res
  /\ IF caller = "service"
     THEN LET output == IF res.state = "fulfilled"
                        THEN llmResult(serializeAdjacency(graph), InsightValue(res.value))
                        ELSE res
          IN IF output.state = "fulfilled"
             THEN /\ svcResult' = output
                  /\ log' = log
             ELSE /\ svcResult' = serviceCatch(graph, output.error)
                  /\ log' = Append(log, FallbackWarning)
     ELSE UNCHANGED <<svcResult, log>>

\* the loop body up to its await: createTimeoutPromise arms the timer and
\* generateContent sends the request of attempt k
SendRequest(k) ==
  /\ pc' = "racing"
  /\ attempt' = k
  /\ sent' = sent + 1
  /\ pending' = pending \cup {k}
  /\ timers' = Append(timers, "armed")

\* the last attempt test that is off by one
lastAttemptOffByOne(k, max) == k = max + 1

\* attempt === this.options.maxRetries
lastAttempt(k, max) == k = max

\* a cleanup that leaves the timer armed
cleanupOmitted(ts, k) == ts

\* timeoutInfo.cleanup()
cleanup(ts, k) == [ts EXCEPT ![k + 1] = IF @ = "armed" THEN "cleared" ELSE @]

\* the catch block of the loop body
CatchBlock(error) ==
  /\ lastError' = asError(error)
  /\ IF ~isRetryableError(error)
     THEN Settle(Rejected(convertToLLMError(error)))
     ELSE IF lastAttempt(attempt, maxRetries)
     THEN Settle(Rejected(convertToLLMError(asError(error))))
     ELSE /\ pc' = "sleeping"
          /\ UNCHANGED <<outcome, svcResult, log>>

\* the mappings parseImports hands to the service: sorted lists
ServiceInputs ==
  { <<<<PathA, <<>>>>>>,
    <<<<PathB, <<PathA, PathAb>>>>>>,
    <<<<PathA, <<PathB>>>>, <<PathB, <<PathA>>>>, <<PathAb, <<PathAb>>>>>> }

\* the strings a caller hands to client.analyze: a serialized mapping, a
\* mapping with further properties and with other elements in its lists, a
\* mapping whose text sets one key twice, a JSON array, null, no JSON at all
GraphJsonInputs ==
  { JSONstringify(AdjacencyValue(<<<<PathA, <<PathB>>>>, <<PathB, <<>>>>>>)),
    JSONstringify(Obj(<<<<PathA, Arr(<<Str(PathB), Num(1), Null, Arr(<<Str(PathAb)>>)>>)>>,
                        <<<<"s", "r", "c">>, Str(<<"c", "o", "d", "e">>)>>,
                        <<<<"m", "e", "t", "a">>, Obj(<<<<PathB, Arr(<<Str(PathA)>>)>>>>)>>,
                        <<<<"n">>, Num(2)>>>>)),
    JSONstringify(Obj(<<<<PathA, Str(<<"c", "o", "d", "e">>)>>,
                        <<PathB, Arr(<<>>)>>,
                        <<PathA, Arr(<<Str(PathB)>>)>>>>)),
    JSONstringify(Arr(<<Str(PathA)>>)),
    JSONstringify(Null),
    NotJsonText }

\* client.analyze(graphJson), called on a client made with a maxRetries
\* option: sanitize, craft the prompt, enter executeWithRetries
DirectAnalyze ==
  /\ op = "none" /\ caller = "none"
  /\ caller' = "direct"
  /\ \E m \in 0..MaxRetriesOpt : maxRetries' = m
  /\ \E text \in GraphJsonInputs :
       LET sanitized == sanitizeGraphJson(text)
       IN /\ graphJson' = text
          /\ IF sanitized.ok
             THEN /\ prompt' = sanitized.text
                  /\ SendRequest(0)
                  /\ UNCHANGED <<outcome, svcResult, log>>
             ELSE /\ Settle(Rejected(sanitized.error))
                  /\ UNCHANGED <<prompt, attempt, sent, pending, timers>>
  /\ UNCHANGED <<adjacency, graph, op, args, ret, svcOptions, lastError, lastResponse>>
  /\ UNCHANGED parser

\* AnalysisService.analyze from the parsed imports on
ServiceAnalyze ==
  /\ op = "none" /\ caller = "none"
  /\ caller' = "service"
  /\ \E A \in ServiceInputs, useProgrammaticAnalysis \in BOOLEAN, apiKey \in BOOLEAN :
       /\ adjacency' = A
       /\ graph' = buildGraph(A)
       /\ svcOptions' = [useProgrammaticAnalysis |-> useProgrammaticAnalysis,
                         apiKey |-> apiKey]
       /\ IF useProgrammaticAnalysis
          THEN /\ svcResult' = programmaticResult(graph')
               /\ UNCHANGED <<clientVars, log>>
          ELSE IF ~apiKey
          THEN \* new GeminiLLMClient() throws
               /\ svcResult' = serviceCatch(graph',
                                 LLMError(<<"G", "e", "m", "i", "n", "i", " ", "A", "P", "I", " ", "k", "e", "y", " ", "i", "s", " ", "r", "e", "q", "u", "i", "r", "e", "d">>, "MISSING_API_KEY", 0, FALSE))
               /\ log' = Append(log, FallbackWarning)
               /\ UNCHANGED clientVars
          ELSE /\ maxRetries' = DefaultMaxRetries
               /\ graphJson' = llmArgument(serializeAdjacency(graph'))
               /\ prompt' = sanitizeGraphJson(graphJson').text
               /\ SendRequest(0)
               /\ UNCHANGED <<svcResult, log, lastError, lastResponse, outcome>>
       /\ IF useProgrammaticAnalysis \/ ~apiKey
          THEN UNCHANGED <<graphJson, prompt>>
          ELSE TRUE
  /\ op' = "buildGraph"
  /\ UNCHANGED <<args, ret>>
  /\ UNCHANGED parser

\* the request of the current attempt is answered before the timer fires
RequestFulfilled ==
  /\ pc = "racing"
  /\ \E text \in ResponseTexts :
       /\ lastResponse' = text
       /\ IF text = "none"
          THEN CatchBlock(EmptyResponseError)
          ELSE /\ LET parsed == parseAndValidateResponse(text)
                  IN Settle(IF parsed.ok THEN Fulfilled(parsed.data)
                            ELSE Rejected(parsed.error))
               /\ UNCHANGED lastError
  /\ pending' = pending \ {attempt}
  /\ timers' = cleanup(timers, attempt)
  /\ UNCHANGED <<graphVars, caller, svcOptions, maxRetries, attempt, sent>>
  /\ UNCHANGED parser

\* the request of the current attempt fails before the timer fires
RequestRejected ==
  /\ pc = "racing"
  /\ \E error \in SdkRejections : CatchBlock(error)
  /\ pending' = pending \ {attempt}
  /\ timers' = cleanup(timers, attempt)
  /\ UNCHANGED <<graphVars, caller, svcOptions, maxRetries, attempt, sent, lastResponse>>
  /\ UNCHANGED parser

\* the timer of the current attempt fires first: the race rejects, the
\* request is left as it is
TimeoutFires ==
  /\ pc = "racing"
  /\ timers[attempt + 1] = "armed"
  /\ timers' = [timers EXCEPT ![attempt + 1] = "fired"]
  /\ CatchBlock(TimeoutError)
  /\ UNCHANGED <<graphVars, caller, svcOptions, maxRetries, attempt, sent, pending,
                 lastResponse>>
  /\ UNCHANGED parser

\* sleep(delay) is over: attempt++, the loop test, the next request
SleepElapses ==
  /\ pc = "sleeping"
  /\ IF attempt + 1 <= maxRetries
     THEN /\ SendRequest(attempt + 1)
          /\ UNCHANGED <<outcome, svcResult, log>>
     ELSE /\ Settle(Rejected(convertToLLMError(lastError)))
          /\ UNCHANGED <<attempt, sent, pending, timers>>
  /\ UNCHANGED <<graphVars, caller, svcOptions, maxRetries, lastError, lastResponse>>
  /\ UNCHANGED parser

\* a request whose attempt is over (its timer fired first) is answered or
\* fails: nobody is waiting for it
AbandonedRequestSettles ==
  /\ \E k \in pending :
       /\ ~(pc = "racing" /\ k = attempt)
       /\ pending' = pending \ {k}
  /\ UNCHANGED <<graphVars, serviceVars, maxRetries, pc, attempt, sent, timers,
                 lastError, lastResponse, outcome>>
  /\ UNCHANGED parser

ClientStep == RequestFulfilled \/ RequestRejected \/ TimeoutFires \/ SleepElapses

Next ==
  \/ BuildGraph
  \/ FindCycles
  \/ DirectAnalyze
  \/ ServiceAnalyze
  \/ RequestFulfilled
  \/ RequestRejected
  \/ TimeoutFires
  \/ SleepElapses
  \/ AbandonedRequestSettles

Spec == Init /\ [][Next]_vars

(***************************************************************************)
(* The analysis functions, called in any sequence on the graph of a        *)
(* mapping.                                                                *)
(***************************************************************************)
\* serializeAdjacency(graph)
SerializeAdjacency ==
  /\ op # "none" /\ caller = "none"
  /\ op' = "serializeAdjacency"
  /\ args' = <<>>
  /\ ret' = serializeAdjacency(graph)
  /\ UNCHANGED <<adjacency, graph, graphJson, prompt, clientVars, serviceVars>>
  /\ UNCHANGED parser

\* computeFanInOut(graph)
ComputeFanInOut ==
  /\ op # "none" /\ caller = "none"
  /\ op' = "computeFanInOut"
  /\ args' = <<>>
  /\ ret' = computeFanInOut(graph)
  /\ UNCHANGED <<adjacency, graph, graphJson, prompt, clientVars, serviceVars>>
  /\ UNCHANGED parser

\* the options callers pass to findHighCouplingNodes: each threshold
\* supplied or not
CouplingOptions ==
  [fanInThreshold : {{}, {1}}, fanOutThreshold : {{}, {1}}]

\* findHighCouplingNodes(graph, options)
FindHighCouplingNodes ==
  /\ op # "none" /\ caller = "none"
  /\ op' = "findHighCouplingNodes"
  /\ \E options \in CouplingOptions :
       /\ args' = options
       /\ ret' = findHighCouplingNodes(graph, options)
  /\ UNCHANGED <<adjacency, graph, graphJson, prompt, clientVars, serviceVars>>
  /\ UNCHANGED parser

\* the options callers pass to analyzeProgrammatically: none, thresholds
\* of one, and full paths with them
AnalyzerOptions ==
  { NoOptions,
    [fanInThreshold |-> {1}, fanOutThreshold |-> {1}, useBasenames |-> {}],
    [fanInThreshold |-> {1}, fanOutThreshold |-> {1}, useBasenames |-> {FALSE}] }

\* analyzeProgrammatically(graph, options)
AnalyzeProgrammatically ==
  /\ op # "none" /\ caller = "none"
  /\ op' = "analyzeProgrammatically"
  /\ \E options \in AnalyzerOptions :
       /\ args' = options
       /\ ret' = analyzeProgrammatically(graph, options)
  /\ UNCHANGED <<adjacency, graph, graphJson, prompt, clientVars, serviceVars>>
  /\ UNCHANGED parser

\* what an ILLMClient may resolve analyze with: a payload, a payload with a
\* further property, a number among the strings, a list that is a string, a
\* missing list, nothing
MockPayloads ==
  { InsightValue([circularDependencies |-> <<"mock: cycle">>,
                  tightCoupling |-> <<>>,
                  recommendations |-> <<"mock: recommendation">>]),
    Obj(<<<<"circularDependencies", Arr(<<>>)>>,
          <<"tightCoupling", Arr(<<Str("mock: coupling")>>)>>,
          <<"recommendations", Arr(<<>>)>>,
          <<"sourceCode", Str("mock: code")>>>>),
    Obj(<<<<"circularDependencies", Arr(<<Str("valid")>>)>>,
          <<"tightCoupling", Arr(<<Str("valid"), Num(123)>>)>>,
          <<"recommendations", Arr(<<Str("valid")>>)>>>>),
    Obj(<<<<"circularDependencies", Str("valid")>>,
          <<"tightCoupling", Arr(<<>>)>>,
          <<"recommendations", Arr(<<>>)>>>>),
    Obj(<<<<"circularDependencies", Arr(<<>>)>>,
          <<"tightCoupling", Arr(<<>>)>>>>),
    Null }

\* how the analyze of an ILLMClient settles
MockSettlements ==
  {Fulfilled(p) : p \in MockPayloads} \cup {Rejected(PlainError(MsgNetwork))}

\* analyzeWithLLM(graph, llm) with an ILLMClient of the caller's: what
\* llm.analyze was called with, and how analyzeWithLLM settled
AnalyzeWithLLM ==
  /\ op # "none" /\ caller = "none"
  /\ op' = "analyzeWithLLM"
  /\ LET adjacencyList == serializeAdjacency(graph)
     IN \E settled \in MockSettlements :
          /\ args' = [llm |-> settled]
          /\ ret' = [llmCalledWith |-> llmArgument(adjacencyList),
                     result |-> IF settled.state = "fulfilled"
                                THEN llmResult(adjacencyList, settled.value)
                                ELSE settled]
  /\ UNCHANGED <<adjacency, graph, graphJson, prompt, clientVars, serviceVars>>
  /\ UNCHANGED parser

\* the graph of any mapping, built
GraphInit ==
  /\ adjacency \in GraphInputs
  /\ graph = buildGraph(adjacency)
  /\ op = "buildGraph"
  /\ args = <<>>
  /\ ret = <<>>
  /\ graphJson = NoText
  /\ prompt = NoText
  /\ caller = "none"
  /\ svcOptions = [useProgrammaticAnalysis |-> FALSE, apiKey |-> FALSE]
  /\ maxRetries = DefaultMaxRetries
  /\ pc = "idle"
  /\ attempt = 0
  /\ sent = 0
  /\ pending = {}
  /\ timers = <<>>
  /\ lastError = NoError
  /\ lastResponse = "none"
  /\ outcome = Unsettled
  /\ svcResult = Unsettled
  /\ log = <<>>
  /\ parser = ParserIdle

GraphNext ==
  \/ SerializeAdjacency
  \/ FindCycles
  \/ ComputeFanInOut
  \/ FindHighCouplingNodes
  \/ AnalyzeProgrammatically
  \/ AnalyzeWithLLM

\* the analysis functions called in any sequence on the graph of a mapping
GraphSpec == GraphInit /\ [][GraphNext]_vars

(***************************************************************************)
(* findCycles and analyzeProgrammatically with the logger, called on a     *)
(* graph whose cycle enumeration may throw: alg.findCycles searches by     *)
(* recursion and exhausts the call stack on a graph that is deep enough.   *)
(***************************************************************************)
\* findCycles(graph)
FindCyclesLogged ==
  /\ op # "none" /\ caller = "none"
  /\ Len(log) < MaxLogged
  /\ op' = "findCycles"
  /\ \E enumerationThrows \in BOOLEAN :
       LET out == findCyclesLogged(graph, enumerationThrows)
       IN /\ args' = [enumerationThrows |-> enumerationThrows]
          /\ ret' = [thrown |-> FALSE, returned |-> out.returned]
          /\ log' = log \o out.logged
  /\ UNCHANGED <<adjacency, graph, graphJson, prompt, clientVars, caller, svcOptions,
                 svcResult>>
  /\ UNCHANGED parser

\* analyzeProgrammatically(graph, options)
AnalyzeProgrammaticallyLogged ==
  /\ op # "none" /\ caller = "none"
  /\ Len(log) < MaxLogged
  /\ op' = "analyzeProgrammatically"
  /\ \E options \in AnalyzerOptions, enumerationThrows \in BOOLEAN :
       LET out == analyzeProgrammaticallyLogged(graph, options, enumerationThrows)
       IN /\ args' = [options |-> options, enumerationThrows |-> enumerationThrows]
          /\ ret' = [thrown |-> FALSE, returned |-> out.returned]
          /\ log' = log \o out.logged
  /\ UNCHANGED <<adjacency, graph, graphJson, prompt, clientVars, caller, svcOptions,
                 svcResult>>
  /\ UNCHANGED parser

LoggedNext ==
  \/ FindCyclesLogged
  \/ AnalyzeProgrammaticallyLogged

LoggedSpec == GraphInit /\ [][LoggedNext]_vars

(***************************************************************************)
(* parseImports. A file is its place in the list and its extension. The    *)
(* call runs from its start to its return without an await; its steps are  *)
(* the source files it adds to the project and the source files it         *)
(* processes.                                                              *)
(***************************************************************************)
FileExtensions == {".ts", ".tsx", ".js"}

\* the file lists a caller passes
FileLists ==
  UNION {{[i \in 1..n |-> [name |-> i, ext |-> e[i]]] : e \in [1..n -> FileExtensions]} :
         n \in 0..MaxFiles}

\* the concurrency option callers pass as a third argument: not supplied, 1, 2
ConcurrencyOptions == {{}, {1}, {2}}

isTypeScriptFile(file) == file.ext = ".ts" \/ file.ext = ".tsx"

ParserAt(at, call, typeScriptFiles, project, result) ==
  [pc |-> at, files |-> call.files, concurrency |-> call.concurrency,
   typeScriptFiles |-> typeScriptFiles, project |-> project, result |-> result]

\* parseImports(files, resolve) is called, up to the first source file: the
\* function declares two parameters and reads no third argument
ParseImports ==
  /\ parser.pc = "idle"
  /\ \E files \in FileLists, resolveIsFunction \in BOOLEAN, concurrency \in ConcurrencyOptions :
       LET call == [files |-> files, concurrency |-> concurrency]
           typeScriptFiles == SelectSeq(files, isTypeScriptFile)
       IN parser' = IF Len(files) = 0
                    THEN ParserAt("returned", call, <<>>, <<>>, <<>>)
                    ELSE IF ~resolveIsFunction
                    THEN ParserAt("threw", call, <<>>, <<>>, <<>>)
                    ELSE IF Len(typeScriptFiles) = 0
                    THEN ParserAt("returned", call, <<>>, <<>>, <<>>)
                    ELSE ParserAt("adding", call, typeScriptFiles, <<>>, <<>>)
  /\ UNCHANGED <<graphVars, clientVars, serviceVars>>

\* typeScriptFiles.map: project.addSourceFileAtPath(filePath) reads and
\* parses the next file
AddSourceFile ==
  /\ parser.pc = "adding"
  /\ LET project == Append(parser.project, parser.typeScriptFiles[Len(parser.project) + 1])
     IN parser' = [parser EXCEPT
                     !.project = project,
                     !.pc = IF Len(project) = Len(parser.typeScriptFiles)
                            THEN "processing" ELSE "adding"]
  /\ UNCHANGED <<graphVars, clientVars, serviceVars>>

\* the loop body over sourceFiles: the imports of the next source file are
\* collected and its entry is put into result; after the last one, return
ProcessSourceFile ==
  /\ parser.pc = "processing"
  /\ LET result == Append(parser.result, parser.project[Len(parser.result) + 1])
     IN parser' = [parser EXCEPT
                     !.result = result,
                     !.pc = IF Len(result) = Len(parser.project)
                            THEN "returned" ELSE "processing"]
  /\ UNCHANGED <<graphVars, clientVars, serviceVars>>

ParserNext ==
  \/ ParseImports
  \/ AddSourceFile
  \/ ProcessSourceFile

ParserSpec == Init /\ [][ParserNext]_vars

(***************************************************************************)
(* validateAdjacencyMapping, called with any value.                        *)
(***************************************************************************)
Whitespace == {" ", "\t", "\n"}

\* String.prototype.trim
RECURSIVE trim(_)
trim(s) ==
  IF s = <<>> THEN s
  ELSE IF Head(s) \in Whitespace THEN trim(Tail(s))
  ELSE IF s[Len(s)] \in Whitespace THEN trim(SubSeq(s, 1, Len(s) - 1))
  ELSE s

\* Object.entries: of an array, its indices as keys
ObjectEntries(v) ==
  IF v.t = "array" THEN [i \in DOMAIN v.items |-> <<Decimal(i - 1), v.items[i]>>]
  ELSE v.entries

\* !v: null, undefined, 0, "" (NaN and false are not drawn)
Falsy(v) ==
  \/ v.t = "null"
  \/ v.t = "number" /\ v.n = 0
  \/ v.t = "string" /\ v.s = <<>>

\* typeof v === "object"
TypeofObject(v) == v.t \in {"object", "array", "null"}

\* the test of a key or a dependency without the trim
InvalidStringUntrimmed(v) == v.t # "string" \/ v.s = <<>>

\* typeof dependency !== "string" || dependency.trim() === ""
InvalidString(v) == v.t # "string" \/ trim(v.s) = <<>>

Returned(value) == [thrown |-> FALSE, value |-> value]
Thrown(message) == [thrown |-> TRUE, message |-> message]

\* the first entry that makes validateAdjacencyMapping throw, 0 when none
FirstInvalidEntry(es) ==
  LET bad == {i \in DOMAIN es :
                \/ InvalidString(Str(es[i][1]))
                \/ es[i][2].t # "array"
                \/ \E k \in DOMAIN es[i][2].items : InvalidString(es[i][2].items[k])}
  IN IF bad = {} THEN 0 ELSE CHOOSE i \in bad : \A j \in bad : i <= j

\* validateAdjacencyMapping: true, or the Error it throws
validateAdjacencyMapping(adjacencyValue) ==
  IF Falsy(adjacencyValue) \/ ~TypeofObject(adjacencyValue)
  THEN Thrown("Adjacency mapping must be a non-null object")
  ELSE LET es == ObjectEntries(adjacencyValue)
           i == FirstInvalidEntry(es)
       IN IF i = 0 THEN Returned(TRUE)
          ELSE IF InvalidString(Str(es[i][1])) THEN Thrown("Invalid source file")
          ELSE IF es[i][2].t # "array" THEN Thrown("Dependencies must be an array")
          ELSE Thrown("Invalid dependency")

\* the keys drawn: a path, the empty string, a blank string; the list
\* elements drawn: a path, a blank string, a number
DrawnKeys == {PathA, <<>>, <<" ">>}
DrawnItems == {Str(PathA), Str(<<" ">>), Num(1)}

\* the values of the properties drawn: lists of up to maxItems elements, and
\* a string
DrawnValues(maxItems) ==
  {Arr(items) : items \in UNION {[1..n -> DrawnItems] : n \in 0..maxItems}}
    \cup {Str(PathA)}

\* the values validateAdjacencyMapping is called with: objects of up to
\* maxEntries distinct keys, arrays, null, numbers, a string
ValidationInputs(maxEntries, maxItems) ==
  UNION {{Obj([i \in DOMAIN ks |-> <<ks[i], vs[i]>>]) :
            vs \in [DOMAIN ks -> DrawnValues(maxItems)]} :
         ks \in {k \in UNION {[1..n -> DrawnKeys] : n \in 0..maxEntries} :
                   \A i, j \in DOMAIN k : i # j => k[i] # k[j]}}
    \cup {Arr(<<>>), Arr(<<Arr(<<Str(PathA)>>)>>), Arr(<<Str(PathA)>>),
          Null, Num(0), Num(1), Str(PathA)}

\* validateAdjacencyMapping(adjacency)
ValidateAdjacencyMapping ==
  /\ op = "none"
  /\ op' = "validateAdjacencyMapping"
  /\ ret' = validateAdjacencyMapping(args)
  /\ UNCHANGED <<adjacency, graph, args, graphJson, prompt, clientVars, serviceVars,
                 parser>>

\* a value to validate is at hand
ValidateInit ==
  /\ args \in ValidationInputs(MaxEntries, MaxItems)
  /\ adjacency = <<>>
  /\ graph = EmptyGraph
  /\ op = "none"
  /\ ret = <<>>
  /\ graphJson = NoText
  /\ prompt = NoText
  /\ caller = "none"
  /\ svcOptions = [useProgrammaticAnalysis |-> FALSE, apiKey |-> FALSE]
  /\ maxRetries = DefaultMaxRetries
  /\ pc = "idle"
  /\ attempt = 0
  /\ sent = 0
  /\ pending = {}
  /\ timers = <<>>
  /\ lastError = NoError
  /\ lastResponse = "none"
  /\ outcome = Unsettled
  /\ svcResult = Unsettled
  /\ log = <<>>
  /\ parser = ParserIdle

ValidateNext == ValidateAdjacencyMapping

ValidateSpec == ValidateInit /\ [][ValidateNext]_vars

(***************************************************************************)
(* The delays of executeWithRetries: the loop seen from its failures, each *)
(* retryable failure before the last attempt followed by a sleep of        *)
(* calculateRetryDelay(attempt). Math.random() is a draw r / RandomDen, and *)
(* a delay is counted in units of 1 / DelayScale of a millisecond, which   *)
(* holds delay + jitter exactly.                                           *)
(***************************************************************************)
RandomDen == 10
DelayScale == 10 * RandomDen
DefaultBaseDelay == 1000
MaxDelay == 30000

\* the numerators of the draws of Math.random(): 0, a half, the largest
RandomDraws == {0, RandomDen \div 2, RandomDen - 1}

\* the baseDelay options drawn, in milliseconds
BaseDelays == {0, 100, DefaultBaseDelay, 7000, 14000, MaxDelay, 40000}

RECURSIVE MathPow2(_)
MathPow2(n) == IF n = 0 THEN 1 ELSE 2 * MathPow2(n - 1)

\* the cap applied to the delay, the jitter added after it
calculateRetryDelayCappedFirst(baseDelay, k, r) ==
  LET delay == baseDelay * MathPow2(k)
      jitter == r * delay
  IN Min(delay * DelayScale, MaxDelay * DelayScale) + jitter

\* calculateRetryDelay(attempt), with r the numerator of Math.random()
calculateRetryDelay(baseDelay, k, r) ==
  LET delay == baseDelay * MathPow2(k)
      jitter == r * delay
  IN Min(delay * DelayScale + jitter, MaxDelay * DelayScale)

\* a client with a baseDelay option has sent its first request
BackoffInit ==
  /\ args \in {[baseDelay |-> b] : b \in BaseDelays}
  /\ maxRetries = MaxRetriesOpt
  /\ pc = "racing"
  /\ attempt = 0
  /\ ret = <<>>
  /\ adjacency = <<>>
  /\ graph = EmptyGraph
  /\ op = "none"
  /\ graphJson = NoText
  /\ prompt = NoText
  /\ caller = "direct"
  /\ svcOptions = [useProgrammaticAnalysis |-> FALSE, apiKey |-> FALSE]
  /\ sent = 1
  /\ pending = {}
  /\ timers = <<>>
  /\ lastError = NoError
  /\ lastResponse = "none"
  /\ outcome = Unsettled
  /\ svcResult = Unsettled
  /\ log = <<>>
  /\ parser = ParserIdle

\* a retryable failure of an attempt that is not the last: the delay is
\* calculated and handed to sleep; ret lists the delays slept so far
BackoffAttemptFails ==
  /\ pc = "racing"
  /\ ~lastAttempt(attempt, maxRetries)
  /\ \E r \in RandomDraws :
       ret' = Append(ret, calculateRetryDelay(args.baseDelay, attempt, r))
  /\ pc' = "sleeping"
  /\ UNCHANGED <<adjacency, graph, op, args, graphJson, prompt, serviceVars, parser,
                 maxRetries, attempt, sent, pending, timers, lastError, lastResponse,
                 outcome>>

\* the failure of the last attempt: no delay, the error is thrown
BackoffLastAttemptFails ==
  /\ pc = "racing"
  /\ lastAttempt(attempt, maxRetries)
  /\ pc' = "rejected"
  /\ UNCHANGED <<graphVars, serviceVars, parser, maxRetries, attempt, sent, pending,
                 timers, lastError, lastResponse, outcome>>

\* the sleep is over: attempt++, the next request
BackoffSleepElapses ==
  /\ pc = "sleeping"
  /\ pc' = "racing"
  /\ attempt' = attempt + 1
  /\ sent' = sent + 1
  /\ UNCHANGED <<graphVars, serviceVars, parser, maxRetries, pending, timers,
                 lastError, lastResponse, outcome>>

BackoffNext == BackoffAttemptFails \/ BackoffLastAttemptFails \/ BackoffSleepElapses

BackoffSpec == BackoffInit /\ [][BackoffNext]_vars

(***************************************************************************)
(* Graph notions the cycle claims are stated with, over the node set and   *)
(* the edge set alone.                                                     *)
(***************************************************************************)
\* the nodes reachable from the nodes of F by one or more edges of E
RECURSIVE ReachableVia(_, _)
ReachableVia(E, F) ==
  LET more == F \cup {e[2] : e \in {x \in E : x[1] \in F}}
  IN IF more = F THEN F ELSE ReachableVia(E, more)

ReachableFrom(E, v) == ReachableVia(E, {e[2] : e \in {x \in E : x[1] = v}})

\* S is the member set of an elementary cycle: its nodes can be arranged so
\* that each has an edge to the next and the last to the first
IsElementaryCycle(E, S) ==
  /\ S # {}
  /\ LET n == Cardinality(S)
     IN \E f \in [1..n -> S] :
          /\ \A i, j \in 1..n : i # j => f[i] # f[j]
          /\ \A i \in 1..n : <<f[i], f[(i % n) + 1]>> \in E

\* the strongly connected components that hold a cycle
CyclicComponents(N, E) ==
  {C \in SUBSET N :
     /\ C # {}
     /\ \A v, w \in C : w \in ReachableFrom(E, v)
     /\ \A x \in N \ C : \E v \in C :
          ~(x \in ReachableFrom(E, v) /\ v \in ReachableFrom(E, x))}

\* the members of S in code unit order
SortedMembers(S) ==
  LET n == Cardinality(S)
  IN [k \in 1..n |->
        CHOOSE x \in S : Cardinality({y \in S : CodeUnitLess(y, x)}) = k - 1]

\* the sequences of the members of T in which a comes before b whenever
\* <<a, b>> is in R
OrderedBy(T, R) ==
  {q \in [1..Cardinality(T) -> T] :
     /\ \A i, j \in DOMAIN q : i # j => q[i] # q[j]
     /\ \A i, j \in DOMAIN q : i < j => <<q[j], q[i]>> \notin R}

\* the two orders on paths a reader may mean by "lexicographic"
CodeUnitOrder == {p \in Paths \X Paths : CodeUnitLess(p[1], p[2])}
LocaleOrder == {p \in Paths \X Paths : localeCompare(p[1], p[2]) < 0}

\* the least member of a cycle in the order R
LeastMember(c, R) == CHOOSE m \in Range(c) : \A x \in Range(c) : <<x, m>> \notin R

\* full lexicographic comparison of two member lists, their strings
\* compared by R
ListLess(a, b, R) ==
  LET d == FirstDiff(a, b)
  IN IF d = 0 THEN Len(a) < Len(b) ELSE <<a[d], b[d]>> \in R

\* the documented output order: least member, then length, then the lists
DocumentedBefore(a, b, R) ==
  \/ <<LeastMember(a, R), LeastMember(b, R)>> \in R
  \/ /\ LeastMember(a, R) = LeastMember(b, R)
     /\ \/ Len(a) < Len(b)
        \/ Len(a) = Len(b) /\ ListLess(a, b, R)

InDocumentedOrder(cycles, R) ==
  \A i, j \in DOMAIN cycles : i < j => DocumentedBefore(cycles[i], cycles[j], R)

(***************************************************************************)
(* Claims about findCycles.                                                *)
(***************************************************************************)
\* C1: findCycles returns every elementary cycle of the graph: each member
\* set of an elementary cycle is the member set of some returned list.
C1_EveryElementaryCycleFound ==
  op = "findCycles" =>
    \A S \in SUBSET NodeSet(graph) :
      IsElementaryCycle(EdgeSet(graph), S) => \E i \in DOMAIN ret : Range(ret[i]) = S

\* C2: every list findCycles returns is the member set of an elementary
\* cycle of the graph, with no node repeated.
C2_EveryListIsElementaryCycle ==
  op = "findCycles" =>
    \A i \in DOMAIN ret :
      /\ Cardinality(Range(ret[i])) = Len(ret[i])
      /\ IsElementaryCycle(EdgeSet(graph), Range(ret[i]))

\* C3: the list findCycles returns is ordered by lexicographically least
\* member, then by length, then by full lexicographic comparison of the
\* member lists, so any two distinct cycles come in the documented order;
\* "lexicographically" read either as the code unit order of the member
\* lists or as the collation order of the comparator.
C3_DocumentedOrder ==
  op = "findCycles" =>
    \/ InDocumentedOrder(ret, CodeUnitOrder)
    \/ InDocumentedOrder(ret, LocaleOrder)

RetryableKinds == {"NETWORK_ERROR", "RATE_LIMIT", "TIMEOUT"}

\* C5: a failed attempt is followed by another request only if the failure
\* is of a network, rate-limit or timeout kind: whenever analyze waits to
\* retry, the failure it retries is of one of these kinds.
C5_RetryOnlyRetryableKinds ==
  pc = "sleeping" => convertToLLMError(lastError).code \in RetryableKinds

\* what is left of the call: attempts not yet made, and the steps of the
\* current one
Measure ==
  IF pc \in {"racing", "sleeping"}
  THEN 2 * (maxRetries - attempt) + (IF pc = "racing" THEN 2 ELSE 1)
  ELSE 0

Settled == pc \in {"resolved", "rejected"}

\* C6: one analyze call sends at most maxRetries + 1 requests and always
\* settles: a call under way always has a next step (a sleep elapses; a race
\* has its request outstanding and its timer armed, so that the timer can
\* fire), each step brings it nearer its end, the failure of the last
\* permitted attempt rejects it with an LLMError, and a settled call sends
\* nothing further.
C6_BoundedRequestsAndSettles ==
  /\ [](sent <= maxRetries + 1)
  /\ [](pc = "sleeping" => ENABLED SleepElapses)
  /\ [](pc = "racing" => attempt \in pending /\ timers[attempt + 1] = "armed")
  /\ [](pc = "racing" /\ caller = "direct" => ENABLED TimeoutFires)
  /\ [][ClientStep => Measure' < Measure]_vars
  /\ [][(pc = "racing" /\ attempt = maxRetries) => pc' \in {"racing", "resolved", "rejected"}]_vars
  /\ [](pc = "rejected" => outcome.state = "rejected" /\ outcome.error.llm)
  /\ [][Settled => (sent' = sent /\ pc' = pc /\ outcome' = outcome)]_vars

\* C6's case: the default client has failed on all four attempts
C6_Witness ==
  /\ pc = "rejected"
  /\ maxRetries = DefaultMaxRetries
  /\ attempt = maxRetries
  /\ sent = maxRetries + 1
  /\ isRetryableError(lastError)

\* C7: within one analysis at most one LLM request is in flight at any
\* moment.
C7_AtMostOneRequestInFlight == Cardinality(pending) <= 1

\* C8: when an attempt exceeds its timeout its pending request is cancelled:
\* no request of an attempt whose timer has fired remains outstanding.
C8_TimedOutRequestCancelled ==
  \A k \in DOMAIN timers : timers[k] = "fired" => (k - 1) \notin pending

\* C9: in AnalysisService.analyze with LLM analysis requested, whenever the
\* LLM strategy fails (no API key, or analyze rejects) the call succeeds with
\* the serialized graph and exactly the insights of analyzeProgrammatically,
\* and the failure is logged as a warning.
C9_LLMFailureFallsBack ==
  (/\ caller = "service"
   /\ ~svcOptions.useProgrammaticAnalysis
   /\ (~svcOptions.apiKey \/ pc = "rejected"))
  => /\ svcResult.state = "fulfilled"
     /\ svcResult.value.graph = serializeAdjacency(graph)
     /\ svcResult.value.insights = analyzeProgrammatically(graph, NoOptions)
     /\ FallbackWarning \in Range(log)

\* C9's case: the client gave up after its last retry, on a graph with cycles
C9_Witness ==
  /\ caller = "service"
  /\ pc = "rejected"
  /\ sent = DefaultMaxRetries + 1
  /\ svcResult.state = "fulfilled"
  /\ Len(svcResult.value.insights.circularDependencies) = 2

InvalidResponses == {"wrongShape", "notJson"}

\* C10: a response that fails validation is terminal for the call: analyze
\* rejects with an LLMError and no further request is sent, however many
\* retries remain.
C10_InvalidResponseIsTerminal ==
  /\ [](lastResponse \in InvalidResponses =>
          /\ pc = "rejected"
          /\ outcome.state = "rejected"
          /\ outcome.error.llm
          /\ outcome.error.code \in {"INVALID_RESPONSE_FORMAT", "RESPONSE_PARSE_ERROR"})
  /\ [][lastResponse' \in InvalidResponses => sent' = sent]_vars

\* C10's case: a response of the wrong shape arrives on a retry, with retries
\* left
C10_Witness ==
  /\ lastResponse = "wrongShape"
  /\ pc = "rejected"
  /\ attempt >= 1
  /\ attempt < maxRetries

(***************************************************************************)
(* Claims about analyzeWithLLM and what it sends to the LLM.               *)
(***************************************************************************)
\* a payload of the output schema: an object whose circularDependencies,
\* tightCoupling and recommendations are each a list of strings
ConformsToOutputSchema(v) ==
  /\ v.t = "object"
  /\ \A k \in {"circularDependencies", "tightCoupling", "recommendations"} :
       \E i \in DOMAIN v.entries :
         /\ v.entries[i][1] = k
         /\ v.entries[i][2].t = "array"
         /\ \A j \in DOMAIN v.entries[i][2].items : v.entries[i][2].items[j].t = "string"

\* C11: when the payload the LLM strategy resolves with does not conform to
\* the output schema, analyzeWithLLM rejects with an error and returns no
\* payload, neither the valid part of it nor a reshaped one.
C11_NonConformingPayloadRejected ==
  (/\ op = "analyzeWithLLM"
   /\ args.llm.state = "fulfilled"
   /\ ~ConformsToOutputSchema(args.llm.value))
  => /\ ret.result.state = "rejected"
     /\ ret.result.error.isError
     /\ DOMAIN ret.result = {"state", "error"}

\* C11's case: a payload with a number among the strings of one list
C11_Witness ==
  /\ op = "analyzeWithLLM"
  /\ args.llm.state = "fulfilled"
  /\ args.llm.value.t = "object"
  /\ \E i \in DOMAIN args.llm.value.entries :
       /\ args.llm.value.entries[i][2].t = "array"
       /\ \E j, k \in DOMAIN args.llm.value.entries[i][2].items :
            /\ args.llm.value.entries[i][2].items[j].t = "string"
            /\ args.llm.value.entries[i][2].items[k].t = "number"
  /\ ret.result.state = "rejected"

\* C12: on the LLM path only the canonical serialized adjacency crosses to
\* the external service: analyzeWithLLM calls llm.analyze with exactly
\* JSON.stringify(serializeAdjacency(graph)), and whatever GeminiLLMClient is
\* called with, the prompt of every request it sends holds, of its input,
\* only keys whose values are arrays and only the string elements of those
\* arrays; without a request nothing is put in a prompt.
C12_OnlyAdjacencyCrossesToLLM ==
  /\ (caller = "service" /\ sent > 0)
       => graphJson = JSONstringify(AdjacencyValue(serializeAdjacency(graph)))
  /\ sent = 0 => prompt = NoText
  /\ sent > 0 =>
       LET input == JSONparse(graphJson)
       IN /\ input.ok
          /\ input.value.t = "object"
          /\ prompt.text = "json"
          /\ prompt.doc.t = "object"
          /\ \A i \in DOMAIN prompt.doc.entries :
               LET sent_value == prompt.doc.entries[i][2]
                   from == Get(input.value, prompt.doc.entries[i][1])
               IN /\ from.t = "array"
                  /\ sent_value.t = "array"
                  /\ \A j \in DOMAIN sent_value.items :
                       /\ sent_value.items[j].t = "string"
                       /\ \E k \in DOMAIN from.items :
                            /\ from.items[k].t = "string"
                            /\ from.items[k].s = sent_value.items[j].s

\* C12's case: the client is called with a mapping that carries source code
\* and other properties, and has sent a request
C12_Witness ==
  /\ caller = "direct"
  /\ sent > 0
  /\ Get(JSONparse(graphJson).value, <<"s", "r", "c">>).t = "string"
  /\ Len(prompt.doc.entries) = 1

(***************************************************************************)
(* Claims about the graph store: buildGraph, serializeAdjacency and the    *)
(* metrics.                                                                *)
(***************************************************************************)
AnalysisFunctions ==
  {"serializeAdjacency", "findCycles", "computeFanInOut", "findHighCouplingNodes",
   "analyzeProgrammatically", "analyzeWithLLM"}

\* C13: no analysis function changes the graph it is given: over a call of
\* any of them the node set and the edge set of the graph stay the same, and
\* so, after any sequence of calls, they are those buildGraph gave it.
C13_AnalysisLeavesGraphUnchanged ==
  /\ [][op' \in AnalysisFunctions =>
          NodeSet(graph') = NodeSet(graph) /\ EdgeSet(graph') = EdgeSet(graph)]_vars
  /\ [](/\ NodeSet(graph) = NodeSet(buildGraph(adjacency))
        /\ EdgeSet(graph) = EdgeSet(buildGraph(adjacency)))

\* C13's case: findCycles has reported a cycle of a graph with edges
C13_Witness ==
  /\ op = "findCycles"
  /\ ret # <<>>
  /\ EdgeSet(graph) # {}
  /\ NodeSet(graph) # {}

\* the node set and the edge set of an adjacency mapping: all its keys and
\* all the values it lists; all its distinct (key, value) pairs
MappingNodes(A) ==
  {A[i][1] : i \in DOMAIN A} \cup UNION {Range(A[i][2]) : i \in DOMAIN A}
MappingEdges(A) ==
  UNION {{<<A[i][1], A[i][2][j]>> : j \in DOMAIN A[i][2]} : i \in DOMAIN A}

\* C14: for any adjacency mapping A, with lists unsorted or listing a value
\* twice, serializeAdjacency(buildGraph(A)) has the node set and the edge
\* set of A.
C14_RoundTripKeepsNodesAndEdges ==
  op = "serializeAdjacency" =>
    /\ MappingNodes(ret) = MappingNodes(adjacency)
    /\ MappingEdges(ret) = MappingEdges(adjacency)

\* C14's case: the graph of a mapping with unsorted lists that list a file
\* twice has been serialized
C14_Witness ==
  /\ op = "serializeAdjacency"
  /\ \E i \in DOMAIN adjacency :
       /\ Len(adjacency[i][2]) = 3
       /\ adjacency[i][2][1] = adjacency[i][2][3]
       /\ CodeUnitLess(adjacency[i][2][2], adjacency[i][2][1])
  /\ ret # adjacency

\* C15: in a mapping serializeAdjacency produces every path of a value list
\* is a key, and a target the input never lists as a source is a key with
\* an empty list.
C15_EveryValueIsAKey ==
  op = "serializeAdjacency" =>
    /\ \A i \in DOMAIN ret : Range(ret[i][2]) \subseteq {ret[k][1] : k \in DOMAIN ret}
    /\ \A target \in UNION {Range(adjacency[i][2]) : i \in DOMAIN adjacency} :
         target \notin {adjacency[i][1] : i \in DOMAIN adjacency}
           => \E k \in DOMAIN ret : ret[k] = <<target, <<>>>>

\* C15's case: a target that is no source of the input
C15_Witness ==
  /\ op = "serializeAdjacency"
  /\ \E i \in DOMAIN adjacency : \E target \in Range(adjacency[i][2]) :
       /\ target \notin {adjacency[k][1] : k \in DOMAIN adjacency}
       /\ \E k \in DOMAIN ret : ret[k] = <<target, <<>>>>

\* the code points of a string: a high and a low surrogate make one
RECURSIVE CodePoints(_)
CodePoints(s) ==
  IF s = <<>> THEN <<>>
  ELSE IF /\ Len(s) >= 2
          /\ CodeUnit(s[1]) >= 55296 /\ CodeUnit(s[1]) <= 56319
          /\ CodeUnit(s[2]) >= 56320 /\ CodeUnit(s[2]) <= 57343
  THEN <<65536 + (CodeUnit(s[1]) - 55296) * 1024 + (CodeUnit(s[2]) - 56320)>>
         \o CodePoints(SubSeq(s, 3, Len(s)))
  ELSE <<CodeUnit(s[1])>> \o CodePoints(Tail(s))

\* lexicographic order by code point, which is also the order of the UTF-8
\* bytes; a proper prefix first
CodePointLess(s, t) ==
  LET cs == CodePoints(s)
      ct == CodePoints(t)
      d == FirstDiff(cs, ct)
  IN IF d = 0 THEN Len(cs) < Len(ct) ELSE cs[d] < ct[d]

Ascending(paths) ==
  \A i, j \in DOMAIN paths : i < j => CodePointLess(paths[i], paths[j])

\* C16: serializeAdjacency produces one entry per node, the keys in ascending
\* lexicographic (byte, code point) order, each value the successors of the
\* node in ascending lexicographic order without duplicates.
C16_SortedLexicographically ==
  op = "serializeAdjacency" =>
    /\ {ret[i][1] : i \in DOMAIN ret} = NodeSet(graph)
    /\ Len(ret) = Cardinality(NodeSet(graph))
    /\ Ascending([i \in DOMAIN ret |-> ret[i][1]])
    /\ \A i \in DOMAIN ret :
         /\ Range(ret[i][2]) = {w \in NodeSet(graph) : <<ret[i][1], w>> \in EdgeSet(graph)}
         /\ Ascending(ret[i][2])

\* C17: buildGraph returns a graph with as many nodes as the union of the
\* keys and the listed values has members and as many edges as the input
\* has distinct (source, target) pairs; a dependency listed twice adds no
\* edge.
C17_NodeAndEdgeCounts ==
  op = "buildGraph" =>
    /\ nodeCount(graph) = Cardinality(MappingNodes(adjacency))
    /\ edgeCount(graph) = Cardinality(MappingEdges(adjacency))

\* C17's case: a list that names the same dependency twice
C17_Witness ==
  /\ op = "buildGraph"
  /\ caller = "none"
  /\ \E i \in DOMAIN adjacency :
       /\ Len(adjacency[i][2]) = 2
       /\ adjacency[i][2][1] = adjacency[i][2][2]
  /\ edgeCount(graph) = 1

\* the distinct predecessors and the distinct successors of a node
Predecessors(g, n) == {u \in NodeSet(g) : <<u, n>> \in EdgeSet(g)}
Successors(g, n) == {w \in NodeSet(g) : <<n, w>> \in EdgeSet(g)}

\* the nodes of a list of findHighCouplingNodes, and that each is listed
\* once with the count given
ListsExactly(list, nodes) ==
  /\ {list[i].node : i \in DOMAIN list} = nodes
  /\ Len(list) = Cardinality(nodes)

\* C18: findHighCouplingNodes lists a node in highFanIn if and only if its
\* fan-in is at least fanInThreshold and in highFanOut if and only if its
\* fan-out is at least fanOutThreshold, the thresholds being 5 and 10 where
\* the caller supplies none.
C18_ListedIffAtThreshold ==
  op = "findHighCouplingNodes" =>
    LET fanInThreshold == IF args.fanInThreshold = {} THEN 5
                          ELSE CHOOSE x \in args.fanInThreshold : TRUE
        fanOutThreshold == IF args.fanOutThreshold = {} THEN 10
                           ELSE CHOOSE x \in args.fanOutThreshold : TRUE
    IN /\ ListsExactly(ret.highFanIn,
            {n \in NodeSet(graph) : Cardinality(Predecessors(graph, n)) >= fanInThreshold})
       /\ ListsExactly(ret.highFanOut,
            {n \in NodeSet(graph) : Cardinality(Successors(graph, n)) >= fanOutThreshold})
       /\ \A i \in DOMAIN ret.highFanIn :
            ret.highFanIn[i].count = Cardinality(Predecessors(graph, ret.highFanIn[i].node))
       /\ \A i \in DOMAIN ret.highFanOut :
            ret.highFanOut[i].count = Cardinality(Successors(graph, ret.highFanOut[i].node))

\* C18's case: no threshold supplied, a node with a fan-in of exactly 5 and
\* a fan-out of exactly 10 listed in both lists, its importers in neither
C18_Witness ==
  /\ op = "findHighCouplingNodes"
  /\ args.fanInThreshold = {} /\ args.fanOutThreshold = {}
  /\ ret.highFanIn = <<[node |-> PathA, count |-> 5]>>
  /\ ret.highFanOut = <<[node |-> PathA, count |-> 10]>>
  /\ Cardinality(NodeSet(graph)) > 1

\* C19: each list of findHighCouplingNodes is sorted by count descending,
\* entries of equal count in ascending lexicographic order of their node
\* path.
C19_CountDescendingThenPath ==
  op = "findHighCouplingNodes" =>
    \A list \in {ret.highFanIn, ret.highFanOut} :
      \A i, j \in DOMAIN list :
        i < j => \/ list[i].count > list[j].count
                 \/ /\ list[i].count = list[j].count
                    /\ CodePointLess(list[i].node, list[j].node)

\* C20: computeFanInOut gives every node, and nothing else, one entry in
\* each map: fanIn the number of its distinct predecessors and fanOut the
\* number of its distinct successors, 0 when it has none.
C20_FanInAndFanOutCounts ==
  op = "computeFanInOut" =>
    /\ {ret.fanIn[i][1] : i \in DOMAIN ret.fanIn} = NodeSet(graph)
    /\ {ret.fanOut[i][1] : i \in DOMAIN ret.fanOut} = NodeSet(graph)
    /\ Len(ret.fanIn) = Cardinality(NodeSet(graph))
    /\ Len(ret.fanOut) = Cardinality(NodeSet(graph))
    /\ \A i \in DOMAIN ret.fanIn :
         ret.fanIn[i][2] = Cardinality(Predecessors(graph, ret.fanIn[i][1]))
    /\ \A i \in DOMAIN ret.fanOut :
         ret.fanOut[i][2] = Cardinality(Successors(graph, ret.fanOut[i][1]))

\* C20's case: a graph built from a list that names three dependencies, two
\* of them the same, with a node that imports nothing
C20_Witness ==
  /\ op = "computeFanInOut"
  /\ \E i \in DOMAIN adjacency :
       /\ Len(adjacency[i][2]) = 3
       /\ <<adjacency[i][1], 2>> \in Range(ret.fanOut)
  /\ \E i \in DOMAIN ret.fanOut : ret.fanOut[i][2] = 0

(***************************************************************************)
(* Claims about analyzeProgrammatically.                                   *)
(***************************************************************************)
\* the graphs of the mappings that have the node set and the edge set of g,
\* their nodes and edges inserted in any order
SameGraphs(g) ==
  {h \in {buildGraph(B) : B \in GraphInputs} :
     NodeSet(h) = NodeSet(g) /\ EdgeSet(h) = EdgeSet(g)}

\* C21: analyzeProgrammatically returns the identical payload for the same
\* node set, edge set and options, whatever the order in which the nodes and
\* edges were inserted: the same strings in the same order in each list.
C21_SamePayloadForSameGraph ==
  op = "analyzeProgrammatically" =>
    \A h \in SameGraphs(graph) : analyzeProgrammatically(h, args) = ret

\* the finding of a node that count modules depend on, and of a node that
\* depends on count modules
FanInFinding(name, count) ==
  <<"H", "i", "g", "h", " ", "f", "a", "n", "-", "i", "n", ":", " ">> \o name
    \o <<" ", "i", "s", " ", "d", "e", "p", "e", "n", "d", "e", "d", " ", "u", "p", "o", "n", " ", "b", "y", " ">> \o Decimal(count) \o <<" ", "m", "o", "d", "u", "l", "e", "s">>
FanOutFinding(name, count) ==
  <<"H", "i", "g", "h", " ", "f", "a", "n", "-", "o", "u", "t", ":", " ">> \o name
    \o <<" ", "d", "e", "p", "e", "n", "d", "s", " ", "o", "n", " ">> \o Decimal(count) \o <<" ", "m", "o", "d", "u", "l", "e", "s">>

\* how often each member of a list occurs in it
Occurrences(list) ==
  [x \in Range(list) |-> Cardinality({i \in DOMAIN list : list[i] = x})]

\* the findings that the lists of findHighCouplingNodes call for, with the
\* thresholds and the naming of opts
FindingsOfHighCoupling(g, opts) ==
  LET high == findHighCouplingNodes(g, [fanInThreshold |-> {opts.fanInThreshold},
                                        fanOutThreshold |-> {opts.fanOutThreshold}])
  IN [i \in DOMAIN high.highFanIn |->
        FanInFinding(nodeName(high.highFanIn[i].node, opts), high.highFanIn[i].count)]
     \o [i \in DOMAIN high.highFanOut |->
          FanOutFinding(nodeName(high.highFanOut[i].node, opts), high.highFanOut[i].count)]

\* tightCoupling has one string for each entry of highFanIn and of highFanOut
\* and no other
C22_OneFindingPerEntry ==
  op = "analyzeProgrammatically" =>
    Occurrences(ret.tightCoupling)
      = Occurrences(FindingsOfHighCoupling(graph, mergeOptions(args)))

\* C22: tightCoupling holds exactly one string for each entry of highFanIn and
\* of highFanOut that findHighCouplingNodes returns for the same graph and
\* thresholds, naming the node and the count in the wording of its kind, and
\* the list is in ascending lexicographic order of the strings.
C22_FindingsOfHighCouplingSorted ==
  op = "analyzeProgrammatically" =>
    /\ Occurrences(ret.tightCoupling)
         = Occurrences(FindingsOfHighCoupling(graph, mergeOptions(args)))
    /\ \A i, j \in DOMAIN ret.tightCoupling :
         i < j => ~CodePointLess(ret.tightCoupling[j], ret.tightCoupling[i])

\* the cycles of a graph as its node set and edge set give them: the classes
\* of the nodes that reach themselves, two nodes in one class when each
\* reaches the other
CycleClasses(g) ==
  LET E == EdgeSet(g)
      onCycle == {v \in NodeSet(g) : v \in ReachableFrom(E, v)}
  IN {{w \in ReachableFrom(E, v) : v \in ReachableFrom(E, w)} : v \in onCycle}

\* the number of the recommendations made from one of the templates
Recommended(recommendations, templates) ==
  Cardinality({i \in DOMAIN recommendations : recommendations[i].template \in templates})

C24_FailureContained ==
  (op \in {"findCycles", "analyzeProgrammatically"} /\ args.enumerationThrows) =>
    /\ ~ret.thrown
    /\ op = "findCycles" => ret.returned = <<>>
    /\ op = "analyzeProgrammatically" => ret.returned.circularDependencies = <<>>

\* C24: when the enumeration of the cycles fails, findCycles catches the
\* failure, logs it as a warning and returns the empty list, and neither
\* findCycles nor analyzeProgrammatically throws.
C24_FailureCaughtLoggedAsWarning ==
  (op \in {"findCycles", "analyzeProgrammatically"} /\ args.enumerationThrows) =>
    /\ ~ret.thrown
    /\ op = "findCycles" => ret.returned = <<>>
    /\ op = "analyzeProgrammatically" => ret.returned.circularDependencies = <<>>
    /\ log # <<>>
    /\ \A i \in DOMAIN log : log[i][1] = "warn"

(***************************************************************************)
(* Claims about parseImports.                                              *)
(***************************************************************************)
\* the concurrency the documentation gives when the option is not supplied
DefaultConcurrency == 10

\* the files whose parsing has started and has not finished
InProgress == Range(parser.project) \ Range(parser.result)

\* the batch of the file at place i of the list, for batches of size c
BatchOf(i, c) == (i - 1) \div c

\* C25: parseImports processes the files in consecutive batches of the
\* configured concurrency (10 when not configured): no file of a batch starts
\* being parsed before every file of the batches before it has finished, and
\* at most concurrency files are in progress at any moment.
C25_BatchesOfConcurrency ==
  parser.pc \in {"adding", "processing", "returned"} =>
    LET c == Supplied(parser.concurrency, DefaultConcurrency)
        list == parser.typeScriptFiles
    IN /\ Cardinality(InProgress) <= c
       /\ \A i, j \in DOMAIN list :
            (BatchOf(j, c) < BatchOf(i, c) /\ list[i] \in Range(parser.project))
              => list[j] \in Range(parser.result)

(***************************************************************************)
(* Claims about validateAdjacencyMapping.                                  *)
(***************************************************************************)
\* a non-null object (an array is one) in which every key satisfies good and
\* every value is an array of strings that satisfy good
WellFormedBy(v, good) ==
  /\ v.t \in {"object", "array"}
  /\ \A i \in DOMAIN ObjectEntries(v) :
       LET e == ObjectEntries(v)[i]
       IN /\ e[1] \in good
          /\ e[2].t = "array"
          /\ \A k \in DOMAIN e[2].items :
               e[2].items[k].t = "string" /\ e[2].items[k].s \in good

\* the strings met in a value: its keys and the strings in its lists
StringsIn(v) ==
  IF v.t \notin {"object", "array"} THEN {}
  ELSE LET es == ObjectEntries(v)
       IN {es[i][1] : i \in DOMAIN es}
            \cup UNION {IF es[i][2].t = "array"
                        THEN {es[i][2].items[k].s :
                                k \in {x \in DOMAIN es[i][2].items : es[i][2].items[x].t = "string"}}
                        ELSE {} : i \in DOMAIN es}

\* C26: validateAdjacencyMapping accepts a value if and only if it is a
\* non-null object in which every key is a non-empty string and every value
\* is an array of non-empty strings; any other value is rejected with an
\* error.
C26_AcceptsIffNonEmptyStrings ==
  op = "validateAdjacencyMapping" =>
    /\ ret.thrown <=> ~WellFormedBy(args, {x \in StringsIn(args) : x # <<>>})
    /\ ~ret.thrown => ret.value = TRUE

\* C26 as amended: validateAdjacencyMapping accepts a value if and only if it
\* is a non-null object in which every key and every element of every value,
\* an array, is a string that is not empty once the whitespace at its ends is
\* taken off; any other value is rejected with an error.
C26_AcceptsIffNonBlankStrings ==
  op = "validateAdjacencyMapping" =>
    /\ ret.thrown <=> ~WellFormedBy(args, {x \in StringsIn(args) :
                                            \E k \in DOMAIN x : x[k] \notin Whitespace})
    /\ ~ret.thrown => ret.value = TRUE

\* C26's case: an object with a blank key or a blank dependency is rejected,
\* and an object of two well-formed entries is accepted
C26_Witness ==
  /\ op = "validateAdjacencyMapping"
  /\ args.t = "object"
  /\ <<" ">> \in StringsIn(args)
  /\ <<>> \notin StringsIn(args)
  /\ \A i \in DOMAIN args.entries :
       args.entries[i][2].t = "array"
         /\ \A k \in DOMAIN args.entries[i][2].items : args.entries[i][2].items[k].t = "string"
  /\ ret.thrown

(***************************************************************************)
(* Claims about findCycles on a self-edge and on acyclic graphs.           *)
(***************************************************************************)
\* the graph has no self-edge and no directed cycle
IsAcyclic(g) == \A v \in NodeSet(g) : v \notin ReachableFrom(EdgeSet(g), v)

\* C27: for the graph of one file that imports itself, findCycles returns
\* exactly one cycle, the list of that one file; so it does when the graph
\* has other files that import nothing and are not imported.
C27_SelfEdgeIsOneCycle ==
  op = "findCycles" =>
    \A a \in NodeSet(graph) : EdgeSet(graph) = {<<a, a>>} => ret = <<<<a>>>>

C27_Witness ==
  /\ op = "findCycles"
  /\ adjacency = <<<<PathA, <<PathA>>>>>>
  /\ NodeSet(graph) = {PathA}
  /\ EdgeSet(graph) = {<<PathA, PathA>>}
  /\ ret = <<<<PathA>>>>

\* C28: for every graph with no self-edge and no directed cycle, findCycles
\* returns the empty list.
C28_AcyclicGivesNoCycles ==
  (op = "findCycles" /\ IsAcyclic(graph)) => ret = <<>>

C28_Witness ==
  /\ op = "findCycles"
  /\ IsAcyclic(graph)
  /\ Cardinality(NodeSet(graph)) = 3
  /\ Cardinality(EdgeSet(graph)) >= 2
  /\ ret = <<>>

(***************************************************************************)
(* Claims about the timers and the delays of executeWithRetries.           *)
(***************************************************************************)
\* C29: a timeout timer is pending only while the attempt it was armed for
\* is racing: when executeWithRetries has returned, has thrown or sleeps
\* before a retry, no timer is pending, and while an attempt is racing no
\* timer of an earlier attempt is.
C29_NoTimerOutlivesItsAttempt ==
  \A k \in DOMAIN timers :
    timers[k] = "armed" => (pc = "racing" /\ k = attempt + 1)

C29_Witness ==
  /\ pc = "resolved"
  /\ Len(timers) = 3
  /\ timers[1] = "cleared"
  /\ timers[2] = "fired"
  /\ timers[3] = "cleared"

\* the least and the greatest wait the claim allows before retry number k,
\* in the units of the delays
LeastWait(baseDelay, k) == Min(baseDelay * MathPow2(k), MaxDelay) * DelayScale
GreatestWait(baseDelay, k) ==
  Min(11 * baseDelay * MathPow2(k) * RandomDen, MaxDelay * DelayScale)

\* C30: the wait before retry number k (0 for the first retry) is at least
\* min(baseDelay * 2^k, 30000) ms and at most min(1.1 * baseDelay * 2^k,
\* 30000) ms; it never exceeds 30 seconds, and the lower bound never
\* decreases from one retry to the next.
C30_WaitWithinBackoffBounds ==
  \A i \in DOMAIN ret :
    /\ LeastWait(args.baseDelay, i - 1) <= ret[i]
    /\ ret[i] <= GreatestWait(args.baseDelay, i - 1)
    /\ ret[i] <= MaxDelay * DelayScale
    /\ i > 1 => LeastWait(args.baseDelay, i - 2) <= LeastWait(args.baseDelay, i - 1)

C30_Witness ==
  /\ pc = "sleeping"
  /\ Len(ret) = 2
  /\ LeastWait(args.baseDelay, 0) < ret[1]
  /\ LeastWait(args.baseDelay, 1) < ret[2]
  /\ ret[2] = MaxDelay * DelayScale
  /\ ret[2] < 11 * args.baseDelay * MathPow2(1) * RandomDen

====
